---------------------------- MODULE Spec2Model ----------------------------
(***************************************************************************)
(* A model of the brainbase-kafka backend: the agent's generate/validate    *)
(* retry loops (backend/agent/agent.py) and the websocket session loop      *)
(* (backend/main.py).                                                       *)
(*                                                                          *)
(* Text is a sequence of one-character strings.  The external collaborators *)
(* (the LLM, the validation service, apply_patch) are inputs: each call     *)
(* draws its outcome, a returned value or a raised exception, from a small  *)
(* set.  The retry loops are written as operators from a state record and   *)
(* a collaborator outcome to the next state record; EngineSpec steps them   *)
(* one collaborator call at a time.                                         *)
(***************************************************************************)
EXTENDS Integers, Sequences, FiniteSets, TLC

VARIABLES
    fcall,      \* a single call of one of the agent's other methods
    eng,        \* the running generate_based_code / generate_based_diff call
    sessions,   \* main.sessions: session id -> messages, workspace, context, lock
    clients,    \* the connections that take part in the run
    pc,         \* where each connection's websocket_endpoint coroutine stands
    cur,        \* the message it is handling (msg, data, action)
    lock_acquired, \* its local lock_acquired
    resp,       \* the response it is about to send
    inbox,      \* frames the client has sent and the server has not yet received
    open,       \* the client has not closed the connection
    nsent,      \* how many frames the client has sent
    outbox      \* what the client has been sent: (request number, status, action)

vars == <<fcall, eng, sessions, clients, pc, cur, lock_acquired, resp, inbox, open, nsent, outbox>>

svars == <<fcall, sessions, clients, pc, cur, lock_acquired, resp, inbox, open, nsent, outbox>>

\* no call of preprocess_diff, classify_prompt_intent or generate_filename
NoCall == [fn |-> "none", pc |-> "none"]

-----------------------------------------------------------------------------
(* Text helpers                                                            *)

NL == "\n"
\* the backquote character (the module's lexer does not take it in a string)
BT == "BQ"

Letters ==
    { "a","b","c","d","e","f","g","h","i","j","k","l","m",
      "n","o","p","q","r","s","t","u","v","w","x","y","z",
      "A","B","C","D","E","F","G","H","I","J","K","L","M",
      "N","O","P","Q","R","S","T","U","V","W","X","Y","Z" }

\* the characters str.strip() and str.lstrip() remove
Whitespace == { " ", "\n", "\t", "\r", "\f" }

Drop(s, n) == SubSeq(s, n + 1, Len(s))

StartsWith(s, p) == Len(s) >= Len(p) /\ SubSeq(s, 1, Len(p)) = p

\* The recursions over a text are functions: applying one evaluates its
\* argument once.
Text  == Seq(STRING)
Lines == Seq(Text)

LStripOf[s \in Text] ==
    IF s # << >> /\ Head(s) \in Whitespace THEN LStripOf[Tail(s)] ELSE s

RStripOf[s \in Text] ==
    IF s # << >> /\ s[Len(s)] \in Whitespace
    THEN RStripOf[SubSeq(s, 1, Len(s) - 1)]
    ELSE s

LStrip(s) == LStripOf[s]

Strip(s) == RStripOf[LStripOf[s]]

Fence == <<BT, BT, BT>>

\* the longest prefix of s matched by [a-zA-Z]*
LetterRun[s \in Text] ==
    IF s # << >> /\ Head(s) \in Letters THEN 1 + LetterRun[Tail(s)] ELSE 0

\* re.sub of the pattern  FENCE[a-zA-Z]*\n?|FENCE  by the empty string: at a
\* fence the first alternative always matches, and takes the letters and one
\* newline that follow it
\* what follows a fence once the match has taken its letters and newline
AfterFence(s) ==
    LET a == Drop(s, 3)
        b == Drop(a, LetterRun[a])
    IN  IF b # << >> /\ Head(b) = NL THEN Tail(b) ELSE b

RemoveFences[s \in Text] ==
    IF s = << >> THEN << >>
    ELSE IF StartsWith(s, Fence) THEN RemoveFences[AfterFence(s)]
    ELSE <<Head(s)>> \o RemoveFences[Tail(s)]

strip_code_blocks(text) == Strip(RemoveFences[text])

-----------------------------------------------------------------------------
(* The collaborators' outcomes                                             *)

MAX_ITER == 5

Empty == << >>

\* what the LLM returns in the rounds of generate_based_code
RawCodeA == <<BT, BT, BT, "b", NL, "A", NL, BT, BT, BT>>
RawCodeB == <<"B", " ">>
\* what the LLM returns in the rounds of generate_based_diff
RawDiffA == <<BT, BT, BT, NL, "@", "@", NL, "+", "A", NL, BT, BT, BT>>
RawDiffB == <<" ", "@", "@", NL, "-", "B">>

\* what apply_patch and the validation service hand back
TextP == <<"P">>
TextQ == <<"Q">>
TextV == <<"V">>

TextO == <<"O">>

BaseTexts == { TextO }

\* llm.invoke: a response with a content, or an exception; the except
\* clauses of the loops tell requests.exceptions.RequestException from any
\* other Exception, whichever call raised it
Returned(raw) == [kind |-> "text", content |-> raw, exc |-> "none"]
Raised(e)     == [kind |-> "raise", content |-> Empty, exc |-> e]

ExcKinds == { "RequestException", "Exception" }

CodeGenOutcomes == { Returned(RawCodeA), Returned(RawCodeB) } \cup { Raised(e) : e \in ExcKinds }
DiffGenOutcomes == { Returned(RawDiffA), Returned(RawDiffB) } \cup { Raised(e) : e \in ExcKinds }

\* validate_code: the service's JSON object (status, error?, converted_code?),
\* or an exception (requests raises RequestException on a timeout, a
\* connection error and an HTTP error status)
ValResult(status, hasErr, hasConv, conv) ==
    [kind |-> "result", status |-> status, has_error |-> hasErr,
     has_converted |-> hasConv, converted_code |-> conv, exc |-> "none"]
ValRaised(e) ==
    [kind |-> "raise", status |-> "none", has_error |-> FALSE,
     has_converted |-> FALSE, converted_code |-> Empty, exc |-> e]

ValOutcomes ==
    { ValResult("success", FALSE, TRUE, TextV),
      ValResult("success", FALSE, FALSE, Empty),
      ValResult("fail", TRUE, FALSE, Empty),
      ValResult("fail", FALSE, FALSE, Empty) }
    \cup { ValRaised(e) : e \in ExcKinds }

\* the outcomes drawn in generate_based_diff: a failure report carries its error
DiffValOutcomes == { v \in ValOutcomes : v.status = "fail" => v.has_error }

\* apply_patch(current_code, patch): the patched text, or an exception
\* apply_patch returns the patched text, or raises with a reason
Applied(t)          == [kind |-> "applied", text |-> t, reason |-> ""]
PatchRaised(reason) == [kind |-> "raise", text |-> Empty, reason |-> reason]
PatchFailed         == PatchRaised("hunk failed")
PatchOutcomes       == { Applied(TextP), Applied(TextQ), PatchFailed }

-----------------------------------------------------------------------------
(* The state of one call of generate_based_code or generate_based_diff.     *)
(* ngen, nval, npatch and log are the record of the collaborator calls made *)
(* (what a mock's call list holds) and base is the caller's argument as it  *)
(* was passed; the other fields are the locals.                             *)

NoResult == [text |-> Empty, diff |-> Empty, new_code |-> Empty, old_code |-> Empty]

Feedback(kind, why) == [kind |-> kind, why |-> why]

NoRound ==
    [prompt |-> Feedback("initial", "none"), g |-> "none", attempt |-> Empty,
     p |-> "none", reason |-> "", applied |-> Empty,
     v |-> "none", status |-> "none", has_error |-> FALSE,
     has_converted |-> FALSE, converted_code |-> Empty]

\* a slip: the fallback new code starts empty instead of as the current code
Start_EmptyNew(fn, code) ==
    [fn |-> fn, pc |-> "invoke", i |-> 0,
     base |-> code,
     current_code |-> code,
     user_prompt_content |-> Feedback("initial", "none"),
     attempt |-> Empty, patch |-> Empty, new_code_attempt |-> Empty,
     last_code_attempt |-> Empty,
     last_diff_attempt |-> Empty,
     last_generated_new_code |-> Empty,
     last_error_message |-> "",
     result |-> NoResult,
     ngen |-> 0, nval |-> 0, npatch |-> 0, log |-> << >>]

Start(fn, code) ==
    [fn |-> fn, pc |-> "invoke", i |-> 0,
     base |-> code,
     current_code |-> code,
     user_prompt_content |-> Feedback("initial", "none"),
     attempt |-> Empty, patch |-> Empty, new_code_attempt |-> Empty,
     last_code_attempt |-> Empty,
     last_diff_attempt |-> Empty,
     last_generated_new_code |-> code,
     last_error_message |-> "",
     result |-> NoResult,
     ngen |-> 0, nval |-> 0, npatch |-> 0, log |-> << >>]

Idle == [Start("none", Empty) EXCEPT !.pc = "idle"]

\* the round's entry of the log, opened by the generation call
Opened(st, g, attempt) ==
    [st EXCEPT !.ngen = @ + 1,
               !.log = Append(@, [NoRound EXCEPT !.prompt = st.user_prompt_content,
                                                 !.g = IF g.kind = "text" THEN "text" ELSE g.exc,
                                                 !.attempt = attempt])]

Validated(st, v) ==
    [st EXCEPT !.nval = @ + 1,
               !.log[Len(st.log)].v = IF v.kind = "raise" THEN v.exc ELSE "result",
               !.log[Len(st.log)].status = v.status,
               !.log[Len(st.log)].has_error = v.has_error,
               !.log[Len(st.log)].has_converted = v.has_converted,
               !.log[Len(st.log)].converted_code = v.converted_code]

Patched(st, p) ==
    [st EXCEPT !.npatch = @ + 1,
               !.log[Len(st.log)].p = p.kind,
               !.log[Len(st.log)].reason = p.reason,
               !.log[Len(st.log)].applied = p.text]

\* validation_result.get("error") or str(validation_result)
ErrorOf(v) == IF v.has_error THEN "error" ELSE "str(validation_result)"

-----------------------------------------------------------------------------
(* generate_based_code                                                     *)

\* the code after the loop, reached by exhaustion and by break
CodeAfterLoop(st) ==
    [st EXCEPT !.pc = "done", !.result = [NoResult EXCEPT !.text = st.last_code_attempt]]

\* a slip: one round too many
LoopContinues_OneMore(st) == st.i + 1 < MAX_ITER + 1

\* for i in range(MAX_ITER)
LoopContinues(st) == st.i + 1 < MAX_ITER

CodeNextIter(st) ==
    IF LoopContinues(st)
    THEN [st EXCEPT !.i = @ + 1, !.pc = "invoke"]
    ELSE CodeAfterLoop(st)

\* a slip: a failure of the validation request ends the loop
CodeExcept_Aborts(st, e) ==
    CodeAfterLoop([st EXCEPT !.last_error_message = "Validation service request failed"])

\* an exception raised inside the try block, by either call
CodeExcept(st, e) ==
    IF e = "RequestException"
    THEN CodeNextIter([st EXCEPT
             !.last_error_message = "Validation service request failed",
             !.user_prompt_content = Feedback("network_error", "Validation service request failed")])
    ELSE CodeAfterLoop([st EXCEPT !.last_error_message = "LLM call failed"])

\* a slip: only the first round's attempt is stored as the last attempt
CodeInvoke_KeepsFirst(st, g) ==
    IF g.kind = "raise"
    THEN CodeExcept(Opened(st, g, Empty), g.exc)
    ELSE LET code_attempt == strip_code_blocks(g.content)
         IN  [Opened(st, g, code_attempt) EXCEPT
                 !.attempt = code_attempt,
                 !.last_code_attempt = IF st.i = 0 THEN code_attempt ELSE @,
                 !.pc = "validate"]

\* response = self.llm.invoke(messages); code_attempt = strip_code_blocks(...)
CodeInvoke(st, g) ==
    IF g.kind = "raise"
    THEN CodeExcept(Opened(st, g, Empty), g.exc)
    ELSE LET code_attempt == strip_code_blocks(g.content)
         IN  [Opened(st, g, code_attempt) EXCEPT
                 !.attempt = code_attempt,
                 !.last_code_attempt = code_attempt,
                 !.pc = "validate"]

\* a slip: a success returns the candidate, not the validator's converted code
CodeValidate_IgnoresConverted(st, v) ==
    LET s1 == Validated(st, v)
    IN  IF v.kind = "raise" THEN CodeExcept(s1, v.exc)
        ELSE IF v.status = "success"
        THEN [s1 EXCEPT !.pc = "done", !.result = [NoResult EXCEPT !.text = st.attempt]]
        ELSE CodeNextIter([s1 EXCEPT
                 !.last_error_message = ErrorOf(v),
                 !.user_prompt_content = Feedback("validation_failed", ErrorOf(v))])

\* a slip: the feedback of a validation failure is set once and then kept
CodeValidate_KeepsFirstFeedback(st, v) ==
    LET s1 == Validated(st, v)
    IN  IF v.kind = "raise" THEN CodeExcept(s1, v.exc)
        ELSE IF v.status = "success"
        THEN [s1 EXCEPT !.pc = "done",
                        !.result = [NoResult EXCEPT
                            !.text = IF v.has_converted THEN v.converted_code
                                     ELSE st.attempt]]
        ELSE CodeNextIter([s1 EXCEPT
                 !.last_error_message = ErrorOf(v),
                 !.user_prompt_content =
                     IF st.user_prompt_content.kind = "validation_failed"
                     THEN st.user_prompt_content
                     ELSE Feedback("validation_failed", ErrorOf(v))])

\* validation_result = self.validate_code(code_attempt) and what follows it
CodeValidate(st, v) ==
    LET s1 == Validated(st, v)
    IN  IF v.kind = "raise" THEN CodeExcept(s1, v.exc)
        ELSE IF v.status = "success"
        THEN [s1 EXCEPT !.pc = "done",
                        !.result = [NoResult EXCEPT !.text =
                            IF v.has_converted THEN v.converted_code ELSE st.attempt]]
        ELSE CodeNextIter([s1 EXCEPT
                 !.last_error_message = ErrorOf(v),
                 !.user_prompt_content = Feedback("validation_failed", ErrorOf(v))])

-----------------------------------------------------------------------------
(* preprocess_diff                                                         *)

\* the line boundaries of str.splitlines() among the model's characters
LineBreaks == { NL, "\r", "\f" }

\* the length of the first line of s, its line break not counted
LineLen[s \in Text] ==
    IF s = << >> \/ Head(s) \in LineBreaks THEN 0 ELSE 1 + LineLen[Tail(s)]

\* diff.splitlines(): no empty last line after a final line break
\* s after its first line and that line's break
AfterLine(s) ==
    LET rest == Drop(s, LineLen[s])
    IN  IF StartsWith(rest, <<"\r", NL>>) THEN Drop(rest, 2)
        ELSE IF rest # << >> THEN Tail(rest)
        ELSE rest

SplitLines[s \in Text] ==
    IF s = << >> THEN << >>
    ELSE <<SubSeq(s, 1, LineLen[s])>> \o SplitLines[AfterLine(s)]

\* "\n".join(lines)
JoinLines[lines \in Lines] ==
    IF lines = << >> THEN << >>
    ELSE IF Len(lines) = 1 THEN lines[1]
    ELSE lines[1] \o <<NL>> \o JoinLines[Tail(lines)]

EndsWithNL(s) == s # << >> /\ s[Len(s)] = NL

\* a slip: only a fence at column 0 is taken for one
IsFenceLine_ColumnZero(line) == StartsWith(line, Fence)

\* not line.strip().startswith(FENCE)
IsFenceLine(line) == StartsWith(Strip(line), Fence)

DropFenceLines[lines \in Lines] ==
    IF lines = << >> THEN << >>
    ELSE IF IsFenceLine(Head(lines)) THEN DropFenceLines[Tail(lines)]
    ELSE <<Head(lines)>> \o DropFenceLines[Tail(lines)]

\* line.startswith(marker + " ") and re.match(marker + " (\S+|/dev/null)", line)
IsFileHeader(line, m) ==
    /\ StartsWith(line, <<m, m, m, " ">>)
    /\ Len(line) >= 5
    /\ line[5] \notin Whitespace

\* stripped_line.startswith(("---", "+++", "@@"))
IsMetadata(stripped) ==
    \/ StartsWith(stripped, <<"-", "-", "-">>)
    \/ StartsWith(stripped, <<"+", "+", "+">>)
    \/ StartsWith(stripped, <<"@", "@">>)

\* a slip: every line is left-trimmed
ProcessedLine_StripsAll(line) == LStrip(line)

\* what the loop body appends for a line that is kept
ProcessedLine(line) ==
    LET stripped_line == LStrip(line)
    IN  IF IsMetadata(stripped_line) THEN stripped_line ELSE line

\* the loop over enumerate(lines), on the lines not yet visited: a file
\* header pair is skipped by skip_next_line
ProcessLines[lines \in Lines] ==
    IF lines = << >> THEN << >>
    ELSE IF /\ Len(lines) >= 2
            /\ IsFileHeader(lines[1], "-")
            /\ IsFileHeader(lines[2], "+")
         THEN ProcessLines[Drop(lines, 2)]
         ELSE <<ProcessedLine(lines[1])>> \o ProcessLines[Tail(lines)]

preprocess_diff(diff) ==
    LET lines        == DropFenceLines[SplitLines[diff]]
        cleaned_diff == JoinLines[ProcessLines[lines]]
    IN  IF EndsWithNL(diff) /\ ~EndsWithNL(cleaned_diff)
        THEN cleaned_diff \o <<NL>>
        ELSE cleaned_diff

-----------------------------------------------------------------------------
(* generate_based_diff                                                     *)

\* a slip: old_code is taken from the last patched text
DiffAfterLoop_OldIsLast(st) ==
    [st EXCEPT !.pc = "done",
               !.result = [NoResult EXCEPT !.diff = st.last_diff_attempt,
                                           !.new_code = st.last_generated_new_code,
                                           !.old_code = st.last_generated_new_code]]

\* the code after the loop, reached by exhaustion and by break
DiffAfterLoop(st) ==
    [st EXCEPT !.pc = "done",
               !.result = [NoResult EXCEPT !.diff = st.last_diff_attempt,
                                           !.new_code = st.last_generated_new_code,
                                           !.old_code = st.current_code]]

DiffNextIter(st) ==
    IF LoopContinues(st)
    THEN [st EXCEPT !.i = @ + 1, !.pc = "invoke"]
    ELSE DiffAfterLoop(st)

\* an exception that reaches the outer try block's except clauses
DiffExcept(st, e) ==
    IF e = "RequestException"
    THEN DiffNextIter([st EXCEPT
             !.last_error_message = "Validation service request failed",
             !.user_prompt_content = Feedback("network_error", "Validation service request failed")])
    ELSE DiffAfterLoop([st EXCEPT !.last_error_message = "LLM call failed"])

\* response = self.llm.invoke(messages) ... patch = self.preprocess_diff(diff_attempt)
DiffInvoke(st, g) ==
    IF g.kind = "raise"
    THEN DiffExcept(Opened(st, g, Empty), g.exc)
    ELSE LET diff_attempt == strip_code_blocks(g.content)
         IN  [Opened(st, g, diff_attempt) EXCEPT
                 !.attempt = diff_attempt,
                 !.last_diff_attempt = diff_attempt,
                 !.patch = preprocess_diff(diff_attempt),
                 !.pc = "apply"]

\* a slip: the text is validated although the diff did not apply
DiffApply_ValidatesAnyway(st, p) ==
    LET s1 == Patched(st, p)
    IN  IF p.kind = "applied"
        THEN [s1 EXCEPT !.new_code_attempt = p.text,
                        !.last_generated_new_code = p.text,
                        !.pc = "validate"]
        ELSE [s1 EXCEPT !.last_error_message = "The generated diff could not be applied",
                        !.pc = "validate"]

\* new_code_attempt = apply_patch(current_code, patch), in its own try block
DiffApply(st, p) ==
    LET s1 == Patched(st, p)
    IN  IF p.kind = "applied"
        THEN [s1 EXCEPT !.new_code_attempt = p.text,
                        !.last_generated_new_code = p.text,
                        !.pc = "validate"]
        ELSE DiffNextIter([s1 EXCEPT
                 !.last_error_message = "The generated diff could not be applied",
                 !.user_prompt_content = Feedback("apply_failed", p.reason)])

\* a slip: the text the diff produced is returned even when the validator
\* supplies its converted text
DiffValidate_IgnoresConverted(st, v) ==
    LET s1 == Validated(st, v)
    IN  IF v.kind = "raise" THEN DiffExcept(s1, v.exc)
        ELSE IF v.status = "success"
        THEN [s1 EXCEPT !.pc = "done",
                        !.result = [NoResult EXCEPT
                            !.diff = st.attempt,
                            !.new_code = st.new_code_attempt,
                            !.old_code = st.current_code]]
        ELSE DiffNextIter([s1 EXCEPT
                 !.last_error_message = ErrorOf(v),
                 !.user_prompt_content = Feedback("validation_failed", ErrorOf(v))])

\* validation_result = self.validate_code(new_code_attempt) and what follows it
DiffValidate(st, v) ==
    LET s1 == Validated(st, v)
    IN  IF v.kind = "raise" THEN DiffExcept(s1, v.exc)
        ELSE IF v.status = "success"
        THEN [s1 EXCEPT !.pc = "done",
                        !.result = [NoResult EXCEPT
                            !.diff = st.attempt,
                            !.new_code = IF v.has_converted THEN v.converted_code
                                         ELSE st.new_code_attempt,
                            !.old_code = st.current_code]]
        ELSE DiffNextIter([s1 EXCEPT
                 !.last_error_message = ErrorOf(v),
                 !.user_prompt_content = Feedback("validation_failed", ErrorOf(v))])

-----------------------------------------------------------------------------
(* EngineSpec: one call of either loop, a collaborator call per step        *)

EngineInit ==
    /\ fcall = NoCall
    /\ eng \in { Start("code", Empty) } \cup { Start("diff", c) : c \in BaseTexts }
    /\ sessions = << >>
    /\ clients = { }
    /\ pc = << >> /\ cur = << >> /\ lock_acquired = << >> /\ resp = << >>
    /\ inbox = << >> /\ open = << >> /\ nsent = << >> /\ outbox = << >>

GenerateCodeInvoke ==
    /\ eng.fn = "code" /\ eng.pc = "invoke"
    /\ \E g \in CodeGenOutcomes : eng' = CodeInvoke(eng, g)
    /\ UNCHANGED svars

GenerateCodeValidate ==
    /\ eng.fn = "code" /\ eng.pc = "validate"
    /\ \E v \in ValOutcomes : eng' = CodeValidate(eng, v)
    /\ UNCHANGED svars

GenerateDiffInvoke ==
    /\ eng.fn = "diff" /\ eng.pc = "invoke"
    /\ \E g \in DiffGenOutcomes : eng' = DiffInvoke(eng, g)
    /\ UNCHANGED svars

GenerateDiffApply ==
    /\ eng.fn = "diff" /\ eng.pc = "apply"
    /\ \E p \in PatchOutcomes \cup { PatchRaised("no hunk") } : eng' = DiffApply(eng, p)
    /\ UNCHANGED svars

GenerateDiffValidate ==
    /\ eng.fn = "diff" /\ eng.pc = "validate"
    /\ \E v \in DiffValOutcomes : eng' = DiffValidate(eng, v)
    /\ UNCHANGED svars

EngineNext ==
    \/ GenerateCodeInvoke
    \/ GenerateCodeValidate
    \/ GenerateDiffInvoke
    \/ GenerateDiffApply
    \/ GenerateDiffValidate

EngineSpec == EngineInit /\ [][EngineNext]_vars

EngineLive == EngineSpec /\ WF_vars(EngineNext)

-----------------------------------------------------------------------------
(* A whole call of a loop, as the handlers of main.py make it: the          *)
(* collaborators' outcomes of round r are script[r]                         *)

RoundOutcome(g, p, v) == [g |-> g, p |-> p, v |-> v]

CodeRound(st, o) ==
    IF st.pc = "done" THEN st
    ELSE LET s1 == CodeInvoke(st, o.g)
         IN  IF s1.pc = "validate" THEN CodeValidate(s1, o.v) ELSE s1

DiffRound(st, o) ==
    IF st.pc = "done" THEN st
    ELSE LET s1 == DiffInvoke(st, o.g)
             s2 == IF s1.pc = "apply" THEN DiffApply(s1, o.p) ELSE s1
         IN  IF s2.pc = "validate" THEN DiffValidate(s2, o.v) ELSE s2

generate_based_code(script) ==
    LET after[k \in 0..MAX_ITER] ==
            IF k = 0 THEN Start("code", Empty) ELSE CodeRound(after[k - 1], script[k])
    IN  after[MAX_ITER].result.text

generate_based_diff(current_code, script) ==
    LET after[k \in 0..MAX_ITER] ==
            IF k = 0 THEN Start("diff", current_code) ELSE DiffRound(after[k - 1], script[k])
    IN  after[MAX_ITER].result

Always(o) == [r \in 1..MAX_ITER |-> o]

ValOK   == ValResult("success", FALSE, TRUE, TextV)
ValPass == ValResult("success", FALSE, FALSE, Empty)
ValFail == ValResult("fail", TRUE, FALSE, Empty)

\* the calls of generate_based_code a prompt may see: valid at once, or
\* never valid
CodeScripts ==
    { Always(RoundOutcome(Returned(RawCodeA), PatchFailed, ValOK)),
      Always(RoundOutcome(Returned(RawCodeB), PatchFailed, ValFail)) }

\* the calls of generate_based_diff a prompt may see: valid at once; a diff
\* that applies in round 1 and none after it; no diff that applies
DiffScripts ==
    { Always(RoundOutcome(Returned(RawDiffA), Applied(TextP), ValPass)),
      [r \in 1..MAX_ITER |->
          IF r = 1 THEN RoundOutcome(Returned(RawDiffA), Applied(TextQ), ValFail)
          ELSE RoundOutcome(Returned(RawDiffB), PatchFailed, ValFail)],
      Always(RoundOutcome(Returned(RawDiffB), PatchFailed, ValFail)) }

-----------------------------------------------------------------------------
(* classify_prompt_intent and generate_filename                            *)

\* a JSON value that may be null or missing: Python's None
Some(t) == [some |-> TRUE, v |-> t]
None    == [some |-> FALSE, v |-> Empty]

\* Python's truth value of a string or None
Truthy(x) == x.some /\ x.v # Empty

\* what the LLM answers to the classification prompt: it raises, or returns
\* a content that json.loads rejects, parses to a non-object, or parses to
\* an object whose "intent" is one of the two kinds or something else
ClassifyAnswer(kind, intent, description) ==
    [kind |-> kind, intent |-> intent, description |-> description]

DescriptionA == <<"X", " ", "y">>

ClassifyOutcomes ==
    { ClassifyAnswer("raise", "none", None),
      ClassifyAnswer("not_json", "none", None),
      ClassifyAnswer("not_object", "none", None),
      ClassifyAnswer("object", "SOMETHING_ELSE", Some(DescriptionA)),
      ClassifyAnswer("object", "CREATE_FILE", Some(DescriptionA)),
      ClassifyAnswer("object", "CREATE_FILE", None),
      ClassifyAnswer("object", "EDIT_FILE", None) }

IntentResult(intent, description) == [intent |-> intent, description |-> description]

\* a slip: the intent of any parsed object is returned as it is
classify_prompt_intent_AnyIntent(answer) ==
    IF answer.kind = "object"
    THEN IntentResult(answer.intent, answer.description)
    ELSE IntentResult("EDIT_FILE", None)

classify_prompt_intent(answer) ==
    IF answer.kind = "object" /\ answer.intent \in { "CREATE_FILE", "EDIT_FILE" }
    THEN IntentResult(answer.intent, answer.description)
    ELSE IntentResult("EDIT_FILE", None)

Lower(c) ==
    LET up == <<"A","B","C","D","E","F","G","H","I","J","K","L","M",
                "N","O","P","Q","R","S","T","U","V","W","X","Y","Z">>
        lo == <<"a","b","c","d","e","f","g","h","i","j","k","l","m",
                "n","o","p","q","r","s","t","u","v","w","x","y","z">>
    IN  IF \E k \in 1..26 : up[k] = c
        THEN lo[CHOOSE k \in 1..26 : up[k] = c]
        ELSE c

ToLower[s \in Text] ==
    IF s = << >> THEN << >> ELSE <<Lower(Head(s))>> \o ToLower[Tail(s)]

SafeChars ==
    { "a","b","c","d","e","f","g","h","i","j","k","l","m",
      "n","o","p","q","r","s","t","u","v","w","x","y","z",
      "0","1","2","3","4","5","6","7","8","9" }

\* re.sub(r"[^a-z0-9]+", "-", s): every run of other characters becomes a dash
Dashed[s \in Text] ==
    IF s = << >> THEN << >>
    ELSE IF Head(s) \in SafeChars THEN <<Head(s)>> \o Dashed[Tail(s)]
    ELSE IF Len(s) >= 2 /\ s[2] \notin SafeChars THEN Dashed[Tail(s)]
    ELSE <<"-">> \o Dashed[Tail(s)]

\* .strip("-")
LStripDash[s \in Text] ==
    IF s # << >> /\ Head(s) = "-" THEN LStripDash[Tail(s)] ELSE s

RStripDash[s \in Text] ==
    IF s # << >> /\ s[Len(s)] = "-" THEN RStripDash[SubSeq(s, 1, Len(s) - 1)] ELSE s

Prefix(s, n) == SubSeq(s, 1, IF Len(s) < n THEN Len(s) ELSE n)

DotBased == <<".", "b", "a", "s", "e", "d">>

EndsWith(s, p) == Len(s) >= Len(p) /\ SubSeq(s, Len(s) - Len(p) + 1, Len(s)) = p

Contains(s, c) == \E k \in 1..Len(s) : s[k] = c

\* the second re.sub (collapsing dashes) finds nothing left to collapse
create_fallback_filename(description) ==
    LET safe_name == RStripDash[LStripDash[Dashed[ToLower[description]]]]
    IN  Prefix(IF safe_name = << >> THEN <<"a", "g", "e", "n", "t">> ELSE safe_name, 20)
            \o DotBased

\* g is what llm.invoke does with the filename prompt
generate_filename(description, g) ==
    IF g.kind = "raise" THEN create_fallback_filename(description)
    ELSE LET filename == ToLower[Strip(strip_code_blocks(g.content))]
             is_valid ==
                 /\ EndsWith(filename, DotBased)
                 /\ ~Contains(filename, " ")
                 /\ ~Contains(filename, "/")
                 /\ Len(filename) > 6
         IN  IF is_valid THEN filename ELSE create_fallback_filename(description)

NameX == <<"x">> \o DotBased
NameY == <<"x", "-", "y">> \o DotBased

FilenameOutcomes ==
    { Returned(<<"X">> \o DotBased), Returned(DotBased), Raised("Exception") }

-----------------------------------------------------------------------------
(* The inbound frames and the responses of main.py                         *)

Conns == { "c1", "c2" }

PromptText == <<"x">>

\* a diff as an LLM hands it out, inside a fence
DiffText   == Fence \o <<NL, "@", "@", NL, "+", "n", NL>> \o Fence

\* a frame as the client sends it.  frame: text or binary; json: what
\* json.loads makes of the text; action "" stands for a missing or empty
\* action; the other fields are data.get(...) of the action's keys
\* which of the agent's methods the handler of a message called, and the
\* intent classify_prompt_intent returned (what mocks of them would record)
NoTrace == [intent |-> "none", generate_filename |-> 0,
            generate_based_code |-> 0, generate_based_diff |-> 0,
            apply_patch |-> << >>]

Frame(frame, json, action) ==
    [frame |-> frame, json |-> json, action |-> action,
     filename |-> None, content |-> Some(Empty), diff |-> Empty,
     prompt |-> "str", activeFile |-> None, context |-> "none",
     n |-> 0, behind |-> 0, trace |-> NoTrace]

MsgPrompt(prompt, activeFile, context) ==
    [Frame("text", "object", "prompt") EXCEPT
        !.prompt = prompt, !.activeFile = activeFile, !.context = context]
MsgUpload(filename, content) ==
    [Frame("text", "object", "upload_file") EXCEPT !.filename = filename, !.content = content]
MsgRead(filename)  == [Frame("text", "object", "read_file") EXCEPT !.filename = filename]
MsgApply(filename) ==
    [Frame("text", "object", "apply_diff") EXCEPT !.filename = filename, !.diff = DiffText]

NoMsg == Frame("none", "none", "")

ClientFrames ==
    { Frame("binary", "none", ""),
      Frame("text", "invalid", ""),
      Frame("text", "non_object", ""),
      Frame("text", "object", ""),
      Frame("text", "object", "bogus"),
      Frame("text", "object", "list_files"),
      MsgPrompt("str", None, "none"),
      MsgPrompt("str", Some(NameX), "list"),
      MsgPrompt("str", Some(NameY), "none"),
      MsgPrompt("non_string", None, "list"),
      MsgUpload(None, Some(TextO)),
      MsgUpload(Some(NameX), Some(TextO)),
      MsgUpload(Some(NameX), None),
      MsgUpload(Some(NameY), Some(TextP)),
      MsgRead(None), MsgRead(Some(NameX)), MsgRead(Some(NameY)),
      MsgApply(None), MsgApply(Some(NameX)) }

\* a gate taken by uploads as well
actions_requiring_lock_WithUpload == { "prompt", "apply_diff", "upload_file" }

actions_requiring_lock == { "prompt", "apply_diff" }

\* a response; action "none" stands for a response without an action key
NoResp ==
    [status |-> "none", action |-> "none", error |-> "",
     filename |-> None, content |-> None, files |-> { }, activeFile |-> None,
     diff |-> Empty, new_code |-> Empty, old_code |-> Empty]

Error(error, action) == [NoResp EXCEPT !.status = "error", !.error = error, !.action = action]

\* a slip: the first message is the file list
InitialState_AsFileList == [NoResp EXCEPT !.status = "success", !.action = "file_list"]

\* {"status": "success", "action": "initial_state", "files": [], "activeFile": None}
InitialState ==
    [NoResp EXCEPT !.status = "success", !.action = "initial_state",
                   !.files = { }, !.activeFile = None]

\* the session record made on connect
NewSession == [messages |-> << >>, workspace |-> << >>, context |-> << >>, lock |-> FALSE]

Files(session) == DOMAIN session.workspace

\* workspace[filename] = content
Stored(workspace, filename, content) ==
    [f \in DOMAIN workspace \cup { filename } |->
        IF f = filename THEN content ELSE workspace[f]]

\* what a handler does before its send_json: the session it leaves, the
\* response it is about to send, or an exception raised on the way
Outcome(session, response) ==
    [session |-> session, resp |-> response, raised |-> FALSE, trace |-> NoTrace]
Raises(session) ==
    [session |-> session, resp |-> NoResp, raised |-> TRUE, trace |-> NoTrace]

Traced(out, intent_result, filename, code, diff) ==
    [out EXCEPT !.trace = [@ EXCEPT !.intent = intent_result.intent,
                                    !.generate_filename = filename,
                                    !.generate_based_code = code,
                                    !.generate_based_diff = diff]]

\* the call apply_patch(current_code, patch) of a handler and its result
Patching(out, current_code, patch, p) ==
    [out EXCEPT !.trace.apply_patch =
        <<[current_code |-> current_code, patch |-> patch, result |-> p]>>]

handle_upload_file_action(session, data) ==
    IF Truthy(data.filename)
    THEN LET after == [session EXCEPT
                          !.workspace = Stored(@, data.filename.v, data.content)]
         IN  Outcome(after, [NoResp EXCEPT !.status = "success",
                                           !.action = "file_uploaded",
                                           !.filename = data.filename,
                                           !.files = Files(after)])
    ELSE Outcome(session, Error("Missing filename", "none"))

handle_list_files_action(session) ==
    Outcome(session, [NoResp EXCEPT !.status = "success",
                                    !.action = "file_list",
                                    !.files = Files(session)])

\* session["workspace"].get(filename)
Get(workspace, filename) ==
    IF filename.some /\ filename.v \in DOMAIN workspace
    THEN workspace[filename.v]
    ELSE None

handle_read_file_action(session, data) ==
    LET content == Get(session.workspace, data.filename)
    IN  IF content.some
        THEN Outcome(session, [NoResp EXCEPT !.status = "success",
                                             !.action = "file_content",
                                             !.filename = data.filename,
                                             !.content = content])
        ELSE Outcome(session, Error("File not found", "none"))

\* a slip: the diff goes to apply_patch as the client sent it
handle_apply_diff_action_RawDiff(session, data, p) ==
    IF Truthy(data.filename) /\ data.filename.v \in Files(session)
    THEN LET current_code == session.workspace[data.filename.v]
             patch        == data.diff
         IN  Patching(
               IF p.kind = "applied"
               THEN Outcome([session EXCEPT
                                !.workspace = Stored(@, data.filename.v, Some(p.text))],
                            [NoResp EXCEPT !.status = "success",
                                           !.action = "diff_applied",
                                           !.filename = data.filename,
                                           !.new_code = p.text])
               ELSE Outcome(session, Error("Patch failed: " \o p.reason, "apply_diff_error")),
               current_code, patch, p)
    ELSE Outcome(session, Error("File not found or invalid for diff", "apply_diff_error"))

\* a slip: the reason of the failure is replaced by a fixed text
handle_apply_diff_action_HidesReason(session, data, p) ==
    IF Truthy(data.filename) /\ data.filename.v \in Files(session)
    THEN LET current_code == session.workspace[data.filename.v]
             patch        == preprocess_diff(data.diff)
         IN  Patching(
               IF p.kind = "applied"
               THEN Outcome([session EXCEPT
                                !.workspace = Stored(@, data.filename.v, Some(p.text))],
                            [NoResp EXCEPT !.status = "success",
                                           !.action = "diff_applied",
                                           !.filename = data.filename,
                                           !.new_code = p.text])
               ELSE Outcome(session, Error("Patch failed: invalid diff", "apply_diff_error")),
               current_code, patch, p)
    ELSE Outcome(session, Error("File not found or invalid for diff", "apply_diff_error"))

\* a slip: a filename that is not in the workspace is patched as an empty file
handle_apply_diff_action_CreatesEntry(session, data, p) ==
    IF Truthy(data.filename)
    THEN LET patch == preprocess_diff(data.diff)
         IN  Patching(
               IF p.kind = "applied"
               THEN Outcome([session EXCEPT
                                !.workspace = Stored(@, data.filename.v, Some(p.text))],
                            [NoResp EXCEPT !.status = "success",
                                           !.action = "diff_applied",
                                           !.filename = data.filename,
                                           !.new_code = p.text])
               ELSE Outcome(session, Error("Patch failed: " \o p.reason, "apply_diff_error")),
               Some(Empty), patch, p)
    ELSE Outcome(session, Error("File not found or invalid for diff", "apply_diff_error"))

\* p is what apply_patch(current_code, patch) does
handle_apply_diff_action(session, data, p) ==
    IF Truthy(data.filename) /\ data.filename.v \in Files(session)
    THEN LET current_code == session.workspace[data.filename.v]
             patch        == preprocess_diff(data.diff)
         IN  Patching(
               IF p.kind = "applied"
               THEN Outcome([session EXCEPT
                                !.workspace = Stored(@, data.filename.v, Some(p.text))],
                            [NoResp EXCEPT !.status = "success",
                                           !.action = "diff_applied",
                                           !.filename = data.filename,
                                           !.new_code = p.text])
               ELSE Outcome(session, Error("Patch failed: " \o p.reason, "apply_diff_error")),
               current_code, patch, p)
    ELSE Outcome(session, Error("File not found or invalid for diff", "apply_diff_error"))

UserTurn(data) ==
    [role |-> "user", prompt |-> data.prompt, context |-> data.context,
     activeFile |-> data.activeFile, filename |-> None, code |-> Empty, diff |-> Empty]

AgentTurn(filename, code, diff) ==
    [role |-> "agent", prompt |-> "", context |-> "none",
     activeFile |-> None, filename |-> Some(filename), code |-> code, diff |-> diff]

\* a slip: the history is started again with the turns of this prompt
CreateFile_RestartsHistory(session, data, intent_result, fname, script) ==
    LET description  == IF intent_result.description.some
                        THEN intent_result.description.v
                        ELSE Prefix(PromptText, 50)
        new_filename == generate_filename(description, fname)
        initial_code == generate_based_code(script)
        after        == [session EXCEPT
                            !.workspace = Stored(@, new_filename, Some(initial_code)),
                            !.messages = <<UserTurn(data),
                                           AgentTurn(new_filename, initial_code, Empty)>>]
    IN  Traced(Outcome(after, [NoResp EXCEPT !.status = "success",
                                             !.action = "file_created",
                                             !.filename = Some(new_filename),
                                             !.content = Some(initial_code),
                                             !.files = Files(after)]),
               intent_result, 1, 1, 0)

\* the CREATE_FILE branch, and the EDIT_FILE branch taken with no files
CreateFile(session, data, intent_result, fname, script) ==
    LET description  == IF intent_result.description.some
                        THEN intent_result.description.v
                        ELSE Prefix(PromptText, 50)
        new_filename == generate_filename(description, fname)
        initial_code == generate_based_code(script)
        after        == [session EXCEPT
                            !.workspace = Stored(@, new_filename, Some(initial_code)),
                            !.messages = @ \o <<UserTurn(data),
                                                AgentTurn(new_filename, initial_code, Empty)>>]
    IN  Traced(Outcome(after, [NoResp EXCEPT !.status = "success",
                                             !.action = "file_created",
                                             !.filename = Some(new_filename),
                                             !.content = Some(initial_code),
                                             !.files = Files(after)]),
               intent_result, 1, 1, 0)

\* a slip: with no file at all the prompt is refused instead of creating one
NoActiveFile_NeverCreates(session, data, intent_result, fname, script) ==
    Traced(Outcome([session EXCEPT !.messages = Append(@, UserTurn(data))],
                   Error("Please select a file to edit", "edit_error")),
           intent_result, 0, 0, 0)

\* a slip: a file is created whenever no valid file is active
NoActiveFile_AlwaysCreates(session, data, intent_result, fname, script) ==
    CreateFile(session, data, intent_result, fname, script)

\* a slip: the refused edit is answered without logging the user's turn
NoActiveFile_LogsNothing(session, data, intent_result, fname, script) ==
    LET current_files == Files(session)
    IN  IF current_files = { }
        THEN CreateFile(session, data, intent_result, fname, script)
        ELSE Traced(Outcome(session, Error("Please select a file to edit", "edit_error")),
                    intent_result, 0, 0, 0)

\* the EDIT_FILE branch when active_file is missing or not in the workspace
NoActiveFile(session, data, intent_result, fname, script) ==
    LET current_files == Files(session)
    IN  IF current_files = { }
        THEN CreateFile(session, data, intent_result, fname, script)
        ELSE Traced(Outcome([session EXCEPT !.messages = Append(@, UserTurn(data))],
                            Error("Please select a file to edit", "edit_error")),
                    intent_result, 0, 0, 0)

\* intent_result, fname, script: what agent.classify_prompt_intent returns
\* and what the filename service and the engines do during the call
handle_prompt_action(session0, data, intent_result, fname, script) ==
    LET session == IF data.context = "list"
                   THEN [session0 EXCEPT !.context = @ \o <<"item">>]
                   ELSE session0
    IN  IF data.prompt = "non_string" THEN Raises(session)
        ELSE IF intent_result.intent = "CREATE_FILE"
        THEN CreateFile(session, data, intent_result, fname, script.code)
        ELSE IF ~Truthy(data.activeFile) \/ data.activeFile.v \notin Files(session)
        THEN NoActiveFile(session, data, intent_result, fname, script.code)
        ELSE LET current_code == session.workspace[data.activeFile.v]
                 diff_result  == generate_based_diff(current_code.v, script.diff)
             IN  Traced(Outcome([session EXCEPT
                                    !.messages = @ \o <<UserTurn(data),
                                                        AgentTurn(data.activeFile.v,
                                                                  Empty, diff_result.diff)>>],
                                [NoResp EXCEPT !.status = "success",
                                               !.action = "diff_generated",
                                               !.filename = data.activeFile,
                                               !.diff = diff_result.diff,
                                               !.new_code = diff_result.new_code,
                                               !.old_code = diff_result.old_code]),
                        intent_result, 0, 0, 1)


-----------------------------------------------------------------------------
(* Spec: the websocket_endpoint coroutines and their clients.  A step of a  *)
(* coroutine runs from one await to the next.                               *)

\* how many frames a client sends over its connection
MaxMsgs == 2

InFlight(c) == pc[c] \in { "handle", "reply", "error_reply", "reply_loop", "fatal" }

IsMutating(m) == m.frame = "text" /\ m.json = "object" /\ m.action \in actions_requiring_lock

\* the requests sent and not yet answered
Unanswered(c) ==
    { inbox[c][k] : k \in 1..Len(inbox[c]) } \cup (IF InFlight(c) THEN { cur[c] } ELSE { })

\* the number of the latest mutating request still unanswered, 0 if none
LatestMutatingUnanswered(c) ==
    LET ns == { m.n : m \in { u \in Unanswered(c) : IsMutating(u) } }
    IN  IF ns = { } THEN 0 ELSE CHOOSE n \in ns : \A k \in ns : k <= n

\* no connection yet; cs are the clients that will connect
Connecting(cs) ==
    /\ fcall = NoCall
    /\ eng = Idle
    /\ sessions = << >>
    /\ clients = cs
    /\ pc = [c \in Conns |-> "none"]
    /\ cur = [c \in Conns |-> NoMsg]
    /\ lock_acquired = [c \in Conns |-> FALSE]
    /\ resp = [c \in Conns |-> NoResp]
    /\ inbox = [c \in Conns |-> << >>]
    /\ open = [c \in Conns |-> TRUE]
    /\ nsent = [c \in Conns |-> 0]
    /\ outbox = [c \in Conns |-> << >>]

SessionInit == Connecting({ "c1" })

\* the client sends one of frames without waiting for anything, max in all
ClientSends(c, frames, max) ==
    /\ pc[c] # "none" /\ open[c]
    /\ nsent[c] < max
    /\ \E f \in frames :
          inbox' = [inbox EXCEPT ![c] = Append(@,
                       [f EXCEPT !.n = nsent[c] + 1,
                                 !.behind = LatestMutatingUnanswered(c)])]
    /\ nsent' = [nsent EXCEPT ![c] = @ + 1]
    /\ UNCHANGED <<fcall, eng, sessions, clients, pc, cur, lock_acquired, resp, open, outbox>>

ClientSend(c) == ClientSends(c, ClientFrames, MaxMsgs)

\* the client closes the connection
ClientClose(c) ==
    /\ pc[c] # "none" /\ open[c]
    /\ open' = [open EXCEPT ![c] = FALSE]
    /\ UNCHANGED <<fcall, eng, sessions, clients, pc, cur, lock_acquired, resp, inbox, nsent, outbox>>

\* what websocket.send_json can do: the client gets the message; or the
\* client is gone and the message is dropped, or the send raises
SendResults(c) == IF open[c] THEN { "delivered" } ELSE { "lost", "raised" }

Sent(c, how, response) ==
    IF how = "delivered"
    THEN [outbox EXCEPT ![c] = Append(@, [req |-> cur[c].n,
                                          request |-> cur[c].action,
                                          behind |-> cur[c].behind,
                                          status |-> response.status,
                                          action |-> response.action,
                                          error |-> response.error])]
    ELSE outbox

\* a slip: one gate for the whole table instead of one per session
WithLock_Shared(c, held) == [d \in DOMAIN sessions |-> [sessions[d] EXCEPT !.lock = held]]

WithLock(c, held) == [sessions EXCEPT ![c].lock = held]

\* The event loop runs one coroutine at a time, from one await that suspends
\* it to the next.  At "handle" the coroutine of c is inside such a run: after
\* receive_text has returned, neither the uncontended session_lock.acquire()
\* nor the await of the handler suspends it, and the handler's calls of the
\* agent (llm.invoke, requests.post, apply_patch) are plain blocking calls.
\* It is suspended again at the handler's send_json.
CanRun(c) == \A d \in Conns \ { c } : pc[d] # "handle"

\* await websocket.accept(); sessions[session_id] = {...}
Accept(c) ==
    /\ CanRun(c)
    /\ c \in clients /\ pc[c] = "none"
    /\ sessions' = [d \in DOMAIN sessions \cup { c } |->
                       IF d = c THEN NewSession ELSE sessions[d]]
    /\ resp' = [resp EXCEPT ![c] = InitialState]
    /\ pc' = [pc EXCEPT ![c] = "hello"]
    /\ UNCHANGED <<fcall, eng, clients, cur, lock_acquired, inbox, open, nsent, outbox>>

\* the send of initial_state, before the try block: an exception here leaves
\* the coroutine without the cleanup
SendInitial(c) ==
    /\ CanRun(c)
    /\ pc[c] = "hello"
    /\ \E how \in SendResults(c) :
          /\ outbox' = Sent(c, how, resp[c])
          /\ pc' = [pc EXCEPT ![c] = IF how = "raised" THEN "ended" ELSE "recv"]
    /\ resp' = [resp EXCEPT ![c] = NoResp]
    /\ UNCHANGED <<fcall, eng, sessions, clients, cur, lock_acquired, inbox, open, nsent>>

\* msg = await websocket.receive_text(), the parse, the check of the action
\* and the locking, up to the next await
Receive(c) ==
    /\ CanRun(c)
    /\ pc[c] = "recv"
    /\ IF inbox[c] # << >>
       THEN LET m == Head(inbox[c])
                reply(r) == /\ resp' = [resp EXCEPT ![c] = r]
                            /\ pc' = [pc EXCEPT ![c] = "reply_loop"]
                            /\ UNCHANGED <<sessions, lock_acquired>>
            IN  /\ inbox' = [inbox EXCEPT ![c] = Tail(@)]
                /\ cur' = [cur EXCEPT ![c] = m]
                /\ IF m.frame = "binary"
                   THEN \* receive_text raises: the outer except Exception
                        /\ resp' = [resp EXCEPT ![c] = Error("Internal server error", "none")]
                        /\ pc' = [pc EXCEPT ![c] = "fatal"]
                        /\ UNCHANGED <<sessions, lock_acquired>>
                   ELSE IF m.json = "invalid"
                   THEN reply(Error("Invalid JSON", "none"))
                   ELSE IF m.json = "non_object"
                   THEN reply(Error("Error processing message", "none"))
                   ELSE IF m.action = ""
                   THEN reply(Error("Missing 'action' field", "none"))
                   ELSE IF m.action \in actions_requiring_lock
                   THEN IF sessions[c].lock
                        THEN reply(Error("Another operation is already in progress. Please wait.",
                                         "operation_rejected"))
                        ELSE /\ sessions' = WithLock(c, TRUE)
                             /\ lock_acquired' = [lock_acquired EXCEPT ![c] = TRUE]
                             /\ pc' = [pc EXCEPT ![c] = "handle"]
                             /\ UNCHANGED resp
                   ELSE /\ lock_acquired' = [lock_acquired EXCEPT ![c] = FALSE]
                        /\ pc' = [pc EXCEPT ![c] = "handle"]
                        /\ UNCHANGED <<sessions, resp>>
       ELSE \* WebSocketDisconnect
            /\ ~open[c]
            /\ pc' = [pc EXCEPT ![c] = "cleanup"]
            /\ UNCHANGED <<sessions, cur, lock_acquired, resp, inbox>>
    /\ UNCHANGED <<fcall, eng, clients, open, nsent, outbox>>

\* what classify_prompt_intent returns, over the answers of the LLM
IntentResults == { classify_prompt_intent(answer) : answer \in ClassifyOutcomes }

\* what the filename service and the engines do during one prompt: a
\* prompt calls generate_filename and generate_based_code, or
\* generate_based_diff, never both, so each side varies with the other fixed
PromptCalls ==
    { [fname |-> f, code |-> s, diff |-> CHOOSE d \in DiffScripts : TRUE] :
         f \in FilenameOutcomes, s \in CodeScripts }
    \cup
    { [fname |-> CHOOSE f \in FilenameOutcomes : TRUE,
       code |-> CHOOSE s \in CodeScripts : TRUE, diff |-> d] : d \in DiffScripts }

\* a slip: a handler's exception leaves the loop instead of being answered
Handled_Propagates(c, out) ==
    /\ sessions' = [sessions EXCEPT ![c] = out.session]
    /\ resp' = [resp EXCEPT ![c] =
                   IF out.raised THEN Error("Internal server error", "none") ELSE out.resp]
    /\ pc' = [pc EXCEPT ![c] = IF out.raised THEN "fatal" ELSE "reply"]
    /\ cur' = [cur EXCEPT ![c].trace = out.trace]

\* the handler's body, up to its await websocket.send_json(response)
Handled(c, out) ==
    /\ sessions' = [sessions EXCEPT ![c] = out.session]
    /\ resp' = [resp EXCEPT ![c] =
                   IF out.raised THEN Error("Error processing action", "none") ELSE out.resp]
    /\ pc' = [pc EXCEPT ![c] = IF out.raised THEN "error_reply" ELSE "reply"]
    /\ cur' = [cur EXCEPT ![c].trace = out.trace]

Handle(c) ==
    /\ CanRun(c)
    /\ pc[c] = "handle"
    /\ LET session == sessions[c]
           data    == cur[c]
       IN  IF data.action = "prompt"
           THEN \E intent_result \in IntentResults, calls \in PromptCalls :
                   Handled(c, handle_prompt_action(session, data, intent_result, calls.fname,
                                                   [code |-> calls.code, diff |-> calls.diff]))
           ELSE IF data.action = "upload_file"
           THEN Handled(c, handle_upload_file_action(session, data))
           ELSE IF data.action = "list_files"
           THEN Handled(c, handle_list_files_action(session))
           ELSE IF data.action = "read_file"
           THEN Handled(c, handle_read_file_action(session, data))
           ELSE IF data.action = "apply_diff"
           THEN \E p \in PatchOutcomes \cup { PatchRaised("no hunk") } :
                   Handled(c, handle_apply_diff_action(session, data, p))
           ELSE Handled(c, Outcome(session, Error("Unknown action", "none")))
    /\ UNCHANGED <<fcall, eng, clients, lock_acquired, inbox, open, nsent, outbox>>

\* a finally clause that forgets the release
Finally_KeepsLock(c) ==
    /\ sessions' = sessions
    /\ lock_acquired' = [lock_acquired EXCEPT ![c] = FALSE]
    /\ cur' = [cur EXCEPT ![c] = NoMsg]
    /\ resp' = [resp EXCEPT ![c] = NoResp]
    /\ pc' = [pc EXCEPT ![c] = "recv"]

\* finally: if lock_acquired: session_lock.release(); then the loop's next turn
Finally(c) ==
    /\ sessions' = IF lock_acquired[c] THEN WithLock(c, FALSE) ELSE sessions
    /\ lock_acquired' = [lock_acquired EXCEPT ![c] = FALSE]
    /\ cur' = [cur EXCEPT ![c] = NoMsg]
    /\ resp' = [resp EXCEPT ![c] = NoResp]
    /\ pc' = [pc EXCEPT ![c] = "recv"]

\* a slip: the error message is sent after a response that was delivered
Reply_ThenError(c) ==
    /\ CanRun(c)
    /\ pc[c] = "reply"
    /\ \E how \in SendResults(c) :
          /\ outbox' = Sent(c, how, resp[c])
          /\ IF how # "lost"
             THEN /\ resp' = [resp EXCEPT ![c] = Error("Error processing action", "none")]
                  /\ pc' = [pc EXCEPT ![c] = "error_reply"]
                  /\ UNCHANGED <<sessions, cur, lock_acquired>>
             ELSE Finally(c)
    /\ UNCHANGED <<fcall, eng, clients, inbox, open, nsent>>

\* the handler's send_json, inside the try block of the dispatch: when it
\* raises, the except clause sends the error message
Reply(c) ==
    /\ CanRun(c)
    /\ pc[c] = "reply"
    /\ \E how \in SendResults(c) :
          /\ outbox' = Sent(c, how, resp[c])
          /\ IF how = "raised"
             THEN /\ resp' = [resp EXCEPT ![c] = Error("Error processing action", "none")]
                  /\ pc' = [pc EXCEPT ![c] = "error_reply"]
                  /\ UNCHANGED <<sessions, cur, lock_acquired>>
             ELSE Finally(c)
    /\ UNCHANGED <<fcall, eng, clients, inbox, open, nsent>>

\* the send_json of the except clause; its own exception is ignored
ErrorReply(c) ==
    /\ CanRun(c)
    /\ pc[c] = "error_reply"
    /\ \E how \in SendResults(c) : outbox' = Sent(c, how, resp[c])
    /\ Finally(c)
    /\ UNCHANGED <<fcall, eng, clients, inbox, open, nsent>>

\* a slip: break instead of continue after the error message
ReplyLoop_Breaks(c) ==
    /\ CanRun(c)
    /\ pc[c] = "reply_loop"
    /\ \E how \in SendResults(c) : outbox' = Sent(c, how, resp[c])
    /\ pc' = [pc EXCEPT ![c] = "cleanup"]
    /\ cur' = [cur EXCEPT ![c] = NoMsg]
    /\ resp' = [resp EXCEPT ![c] = NoResp]
    /\ UNCHANGED <<fcall, eng, sessions, clients, lock_acquired, inbox, open, nsent>>

\* a send_json of the loop outside the dispatch's try block, followed by
\* continue: its exception ends the loop
ReplyLoop(c) ==
    /\ CanRun(c)
    /\ pc[c] = "reply_loop"
    /\ \E how \in SendResults(c) :
          /\ outbox' = Sent(c, how, resp[c])
          /\ pc' = [pc EXCEPT ![c] = IF how = "raised" THEN "cleanup" ELSE "recv"]
    /\ cur' = [cur EXCEPT ![c] = NoMsg]
    /\ resp' = [resp EXCEPT ![c] = NoResp]
    /\ UNCHANGED <<fcall, eng, sessions, clients, lock_acquired, inbox, open, nsent>>

\* the outer except Exception: one attempt to tell the client
FatalReply(c) ==
    /\ CanRun(c)
    /\ pc[c] = "fatal"
    /\ \E how \in SendResults(c) : outbox' = Sent(c, how, resp[c])
    /\ cur' = [cur EXCEPT ![c] = NoMsg]
    /\ resp' = [resp EXCEPT ![c] = NoResp]
    /\ pc' = [pc EXCEPT ![c] = "cleanup"]
    /\ UNCHANGED <<fcall, eng, sessions, clients, lock_acquired, inbox, open, nsent>>

\* the outer finally: the lock is released if held and the session deleted
Cleanup(c) ==
    /\ CanRun(c)
    /\ pc[c] = "cleanup"
    /\ sessions' = [d \in DOMAIN sessions \ { c } |-> sessions[d]]
    /\ pc' = [pc EXCEPT ![c] = "ended"]
    /\ UNCHANGED <<fcall, eng, clients, cur, lock_acquired, resp, inbox, open, nsent, outbox>>

Next ==
    \E c \in Conns :
        \/ ClientSend(c)
        \/ ClientClose(c)
        \/ Accept(c)
        \/ SendInitial(c)
        \/ Receive(c)
        \/ Handle(c)
        \/ Reply(c)
        \/ ErrorReply(c)
        \/ ReplyLoop(c)
        \/ FatalReply(c)
        \/ Cleanup(c)

Spec == SessionInit /\ [][Next]_vars

-----------------------------------------------------------------------------
(* PairSpec: two connections, each with its own websocket_endpoint          *)
(* coroutine and its own record in the sessions table                       *)

\* how many frames each of the two clients sends
MaxPairMsgs == 1

PairFrames ==
    { Frame("binary", "none", ""),
      Frame("text", "invalid", ""),
      Frame("text", "object", "list_files"),
      MsgPrompt("str", None, "list"),
      MsgUpload(Some(NameX), Some(TextO)),
      MsgRead(Some(NameX)),
      MsgApply(Some(NameX)) }

PairNext ==
    \E c \in Conns :
        \/ ClientSends(c, PairFrames, MaxPairMsgs)
        \/ ClientClose(c)
        \/ Accept(c)
        \/ SendInitial(c)
        \/ Receive(c)
        \/ Handle(c)
        \/ Reply(c)
        \/ ErrorReply(c)
        \/ ReplyLoop(c)
        \/ FatalReply(c)
        \/ Cleanup(c)

PairSpec == Connecting(Conns) /\ [][PairNext]_vars

-----------------------------------------------------------------------------
(* FilesSpec: one connection whose client works on the files of its        *)
(* workspace with upload_file, list_files, read_file and apply_diff         *)

\* how many frames the client sends
MaxOps == 3

FileFrames ==
    { Frame("binary", "none", ""),
      Frame("text", "invalid", ""),
      Frame("text", "object", "list_files"),
      MsgUpload(None, Some(TextO)),
      MsgUpload(Some(NameX), Some(TextO)),
      MsgUpload(Some(NameX), Some(Empty)),
      MsgUpload(Some(NameX), None),
      MsgUpload(Some(NameY), Some(TextP)),
      MsgRead(None), MsgRead(Some(NameX)), MsgRead(Some(NameY)),
      MsgApply(None), MsgApply(Some(NameX)) }

FilesNext ==
    \E c \in Conns :
        \/ ClientSends(c, FileFrames, MaxOps)
        \/ ClientClose(c)
        \/ Accept(c)
        \/ SendInitial(c)
        \/ Receive(c)
        \/ Handle(c)
        \/ Reply(c)
        \/ ErrorReply(c)
        \/ ReplyLoop(c)
        \/ FatalReply(c)
        \/ Cleanup(c)

FilesSpec == SessionInit /\ [][FilesNext]_vars

-----------------------------------------------------------------------------
(* EditSpec: one connection whose client uploads a file, asks for changes   *)
(* of it and for new files, and applies diffs                               *)

\* how many frames the client sends
MaxEdits == 3

EditFrames ==
    { Frame("binary", "none", ""),
      Frame("text", "invalid", ""),
      MsgUpload(Some(NameX), Some(TextO)),
      MsgPrompt("str", Some(NameX), "none"),
      MsgPrompt("str", None, "none"),
      MsgApply(Some(NameX)) }

EditNext ==
    \E c \in Conns :
        \/ ClientSends(c, EditFrames, MaxEdits)
        \/ ClientClose(c)
        \/ Accept(c)
        \/ SendInitial(c)
        \/ Receive(c)
        \/ Handle(c)
        \/ Reply(c)
        \/ ErrorReply(c)
        \/ ReplyLoop(c)
        \/ FatalReply(c)
        \/ Cleanup(c)

EditSpec == SessionInit /\ [][EditNext]_vars

-----------------------------------------------------------------------------
(* CallSpec: one call of preprocess_diff, classify_prompt_intent or         *)
(* generate_filename on an argument drawn from a bounded set                *)

\* the longest diff, in lines
MaxLines == 3

\* the lines a diff is made of: fences (bare, tagged, indented), file
\* headers (at column 0, indented), hunk headers, content lines, a blank line
DiffLines ==
    { Fence, Fence \o <<"d">>, <<" ">> \o Fence,
      <<"-", "-", "-", " ", "a">>, <<"+", "+", "+", " ", "b">>,
      <<" ", "-", "-", "-", " ", "a">>, <<" ", "+", "+", "+", " ", "b">>,
      <<"@", "@">>, <<" ", " ", "@", "@">>,
      <<" ", "c">>, <<"+", "n">>,
      << >> }

\* the texts of at most MaxLines lines, with and without a final newline
DiffInputs ==
    { JoinLines[ls] \o tail :
        ls \in UNION { [1..n -> DiffLines] : n \in 0..MaxLines },
        tail \in { << >>, <<NL>> } }

Call(fn, arg) == [fn |-> fn, pc |-> "call", arg |-> arg, out |-> << >>, again |-> << >>]

CallInit ==
    /\ fcall \in { Call("preprocess_diff", d) : d \in DiffInputs }
                 \cup { Call("classify_prompt_intent", a) : a \in ClassifyOutcomes }
                 \cup { Call("generate_filename", [description |-> d, g |-> g]) :
                           d \in { DescriptionA, <<"!">> }, g \in FilenameOutcomes }
    /\ eng = Idle
    /\ sessions = << >>
    /\ clients = { }
    /\ pc = << >> /\ cur = << >> /\ lock_acquired = << >> /\ resp = << >>
    /\ inbox = << >> /\ open = << >> /\ nsent = << >> /\ outbox = << >>

PreprocessDiff ==
    /\ fcall.fn = "preprocess_diff" /\ fcall.pc = "call"
    /\ fcall' = [fcall EXCEPT !.out = preprocess_diff(fcall.arg), !.pc = "returned"]
    /\ UNCHANGED <<eng, sessions, clients, pc, cur, lock_acquired, resp, inbox, open, nsent, outbox>>

\* the result is passed to preprocess_diff once more
PreprocessDiffAgain ==
    /\ fcall.fn = "preprocess_diff" /\ fcall.pc = "returned"
    /\ fcall' = [fcall EXCEPT !.again = preprocess_diff(fcall.out), !.pc = "twice"]
    /\ UNCHANGED <<eng, sessions, clients, pc, cur, lock_acquired, resp, inbox, open, nsent, outbox>>

ClassifyPromptIntent ==
    /\ fcall.fn = "classify_prompt_intent" /\ fcall.pc = "call"
    /\ fcall' = [fcall EXCEPT !.out = classify_prompt_intent(fcall.arg), !.pc = "returned"]
    /\ UNCHANGED <<eng, sessions, clients, pc, cur, lock_acquired, resp, inbox, open, nsent, outbox>>

GenerateFilename ==
    /\ fcall.fn = "generate_filename" /\ fcall.pc = "call"
    /\ fcall' = [fcall EXCEPT !.out = generate_filename(fcall.arg.description, fcall.arg.g),
                              !.pc = "returned"]
    /\ UNCHANGED <<eng, sessions, clients, pc, cur, lock_acquired, resp, inbox, open, nsent, outbox>>

CallNext ==
    \/ PreprocessDiff
    \/ PreprocessDiffAgain
    \/ ClassifyPromptIntent
    \/ GenerateFilename

CallSpec == CallInit /\ [][CallNext]_vars

-----------------------------------------------------------------------------
(* The retry loops: what the claims say of a call, read off its log         *)

Done == eng.pc = "done"

Rounds == 1..Len(eng.log)

\* round r's validation call returned a report of failure / of success
ValFailed(r)    == eng.log[r].v = "result" /\ eng.log[r].status = "fail"
ValSucceeded(r) == eng.log[r].v = "result" /\ eng.log[r].status = "success"

GenRaised(r) == eng.log[r].g \in ExcKinds

\* no call of the generation or the validation collaborator raised
NoCollaboratorRaised ==
    \A r \in Rounds : eng.log[r].g = "text" /\ eng.log[r].v \notin ExcKinds

\* C4: in generate_based_code, when validations 1..k-1 report failure, the
\* k-th reports success with converted code and no collaborator raises, the
\* call has ended after exactly k generation and k validation calls and
\* returns the converted code of the k-th validation.
C4_SuccessAtRoundK ==
    \A k \in 1..MAX_ITER :
        ( /\ eng.fn = "code"
          /\ k \in Rounds
          /\ NoCollaboratorRaised
          /\ \A r \in 1..(k - 1) : ValFailed(r)
          /\ ValSucceeded(k) /\ eng.log[k].has_converted )
        => /\ Done
           /\ eng.ngen = k /\ eng.nval = k
           /\ eng.result.text = eng.log[k].converted_code

C4_Witness ==
    /\ eng.fn = "code" /\ Done
    /\ eng.ngen = 3 /\ eng.nval = 3
    /\ NoCollaboratorRaised
    /\ ValFailed(1) /\ ValFailed(2) /\ ValSucceeded(3)
    /\ eng.log[3].has_converted
    /\ eng.result.text = TextV /\ eng.log[3].attempt # TextV

\* C5: in generate_based_code, when all MAX_ITER validation calls report
\* failure, the call has ended after exactly MAX_ITER generation calls and
\* returns the candidate of the last round.
C5_ExhaustedReturnsLast ==
    ( /\ eng.fn = "code"
      /\ eng.nval = MAX_ITER
      /\ \A r \in Rounds : ValFailed(r) )
    => /\ Done
       /\ eng.ngen = MAX_ITER
       /\ eng.result.text = eng.log[MAX_ITER].attempt

C5_Witness ==
    /\ eng.fn = "code" /\ Done
    /\ eng.nval = MAX_ITER
    /\ \A r \in Rounds : ValFailed(r)
    /\ eng.log[1].attempt # eng.log[MAX_ITER].attempt
    /\ eng.result.text = strip_code_blocks(RawCodeA)
    /\ eng.result.text = <<"A">>

\* C6: in generate_based_code, when the generation call of round r raises,
\* the loop stops at once: round r makes no validation call, no round follows
\* it, and the call returns the candidate of round r-1 (the empty text when
\* r = 1).
C6_GenerationErrorAborts ==
    \A r \in Rounds :
        (eng.fn = "code" /\ GenRaised(r))
        => /\ Done
           /\ Len(eng.log) = r
           /\ eng.log[r].v = "none"
           /\ eng.result.text = IF r = 1 THEN Empty ELSE eng.log[r - 1].attempt

\* C7: every call of either loop ends with a result, after at most MAX_ITER
\* generation calls, MAX_ITER validation calls and MAX_ITER patch-apply
\* calls, whatever the collaborators do.
CallsBounded ==
    /\ eng.ngen <= MAX_ITER
    /\ eng.nval <= MAX_ITER
    /\ eng.npatch <= MAX_ITER

C7_BoundedTermination == [] CallsBounded /\ <> Done

C7_Witness ==
    /\ eng.fn = "diff" /\ Done
    /\ eng.ngen = MAX_ITER /\ eng.nval = MAX_ITER /\ eng.npatch = MAX_ITER
    /\ \E r \in Rounds : eng.log[r].v = "RequestException"

\* C8: on every return path of generate_based_diff the result's old_code is
\* the text the caller passed in.
C8_OldCodeIsBase ==
    (eng.fn = "diff" /\ Done) => eng.result.old_code = eng.base

C8_Witness ==
    /\ eng.fn = "diff" /\ Done
    /\ \E r \in Rounds : eng.log[r].p = "applied"
    /\ \E r \in Rounds : eng.log[r].p = "raise"
    /\ eng.result.new_code # eng.base
    /\ eng.result.old_code = TextO

\* all MAX_ITER rounds ran: no validation success and no break
DiffExhausted ==
    /\ eng.fn = "diff" /\ Done
    /\ Len(eng.log) = MAX_ITER
    /\ \A r \in Rounds :
          /\ eng.log[r].g \in { "text", "RequestException" }
          /\ eng.log[r].v # "Exception"
          /\ ~ValSucceeded(r)

DiffApplied(r) == eng.log[r].p = "applied"

\* C9: when generate_based_diff exhausts its rounds and some round's diff
\* applied, the result's diff is the diff of the last round whose diff
\* applied, and new_code is the text that diff produced.
C9_ExhaustedReturnsLastApplied ==
    \A r \in Rounds :
        ( /\ DiffExhausted
          /\ DiffApplied(r)
          /\ \A q \in Rounds : q > r => ~DiffApplied(q) )
        => /\ eng.result.diff = eng.log[r].attempt
           /\ eng.result.new_code = eng.log[r].applied

\* C10: when no diff applies in any of the MAX_ITER rounds of
\* generate_based_diff, the result pairs the last round's diff with the
\* unmodified base text as new_code.
C10_NothingAppliedReturnsBase ==
    ( /\ eng.fn = "diff"
      /\ eng.npatch = MAX_ITER
      /\ \A r \in Rounds : eng.log[r].p = "raise" )
    => /\ Done
       /\ eng.result.diff = eng.log[MAX_ITER].attempt
       /\ eng.result.new_code = eng.base

C10_Witness ==
    /\ eng.fn = "diff" /\ Done
    /\ eng.npatch = MAX_ITER
    /\ \A r \in Rounds : eng.log[r].p = "raise"
    /\ eng.log[1].attempt # eng.log[MAX_ITER].attempt
    /\ eng.result.new_code = TextO

-----------------------------------------------------------------------------
(* The gate of a session                                                    *)

\* the actions the specification calls mutating
MutatingActions == { "prompt", "apply_diff" }

\* the positions at which a handler of the dispatch is running
HandlerPcs == { "handle", "reply", "error_reply" }

MutatingHandlerRuns(c) == pc[c] \in HandlerPcs /\ cur[c].action \in MutatingActions

Rejected(o) == o.action = "operation_rejected"

\* C1: when a mutating request was sent while an earlier mutating request of
\* the same connection was still unanswered, exactly one of the two is
\* answered with the operation_rejected response.
C1_PipelinedPairOneRejected ==
    \A c \in Conns : \A i, j \in 1..Len(outbox[c]) :
        LET first == outbox[c][i]
            second == outbox[c][j]
        IN  ( /\ first.request \in MutatingActions
              /\ second.request \in MutatingActions
              /\ second.behind = first.req )
            => (Rejected(first) # Rejected(second))

\* C2: the gate of a session is held exactly while a handler of a mutating
\* action of that session runs: it is free while the session waits for its
\* next message, and the handlers of upload_file, list_files and read_file
\* run without it.
C2_GateHeldOnlyByMutatingHandler ==
    \A c \in DOMAIN sessions :
        /\ sessions[c].lock <=> MutatingHandlerRuns(c)
        /\ lock_acquired[c] <=> MutatingHandlerRuns(c)

\* a handler that does not need the gate runs with the gate free, after a
\* mutating request of the same session was answered
C2_Witness ==
    \E c \in DOMAIN sessions :
        /\ pc[c] = "handle" /\ cur[c].action = "upload_file"
        /\ ~sessions[c].lock
        /\ \E i \in 1..Len(outbox[c]) :
              outbox[c][i].request \in MutatingActions /\ outbox[c][i].status = "success"

\* C3: the gate is never held while no handler runs, and a mutating request
\* sent when no earlier mutating request was unanswered is never rejected.
C3_GateFreeAfterHandlerEnds ==
    \A c \in DOMAIN sessions :
        /\ pc[c] \notin HandlerPcs => ~sessions[c].lock
        /\ Rejected(resp[c]) => cur[c].behind # 0

\* a mutating handler raised and the client was told; the connection is still
\* open and a later mutating request has got the gate
C3_Witness ==
    \E c \in DOMAIN sessions :
        /\ open[c] /\ pc[c] = "handle" /\ cur[c].action \in MutatingActions
        /\ sessions[c].lock
        /\ \E i \in 1..Len(outbox[c]) :
              /\ outbox[c][i].request \in MutatingActions
              /\ outbox[c][i].error = "Error processing action"

-----------------------------------------------------------------------------
(* The rounds of generate_based_diff                                        *)

\* C11: in generate_based_diff a round whose diff fails to apply makes no
\* validation call and is followed by the generation call of the next round
\* (by the end of the call when it was the last round); when the diff of
\* round 1 fails to apply and the diff of round 2 applies and validates, the
\* call has ended after 2 generation, 2 patch-apply and 1 validation calls,
\* with round 2's diff, its validated text and old_code equal to the input.
C11_ApplyFailureCostsOneRound ==
    eng.fn = "diff" =>
      /\ \A r \in Rounds :
            eng.log[r].p = "raise"
            => /\ eng.log[r].v = "none"
               /\ IF r < MAX_ITER
                  THEN Len(eng.log) > r \/ (eng.pc = "invoke" /\ eng.i = r)
                  ELSE Done
      /\ ( /\ Len(eng.log) >= 2
           /\ eng.log[1].p = "raise"
           /\ eng.log[2].p = "applied"
           /\ ValSucceeded(2) )
         => /\ Done
            /\ eng.ngen = 2 /\ eng.npatch = 2 /\ eng.nval = 1
            /\ eng.result.diff = eng.log[2].attempt
            /\ eng.result.new_code = IF eng.log[2].has_converted
                                     THEN eng.log[2].converted_code
                                     ELSE eng.log[2].applied
            /\ eng.result.old_code = eng.base

C11_Witness ==
    /\ eng.fn = "diff" /\ Done
    /\ Len(eng.log) = 2
    /\ eng.log[1].p = "raise" /\ eng.log[2].p = "applied" /\ ValSucceeded(2)
    /\ eng.log[1].attempt # eng.log[2].attempt
    /\ eng.log[2].prompt = Feedback("apply_failed", PatchFailed.reason)
    /\ eng.result.new_code = TextP /\ eng.result.old_code = TextO

-----------------------------------------------------------------------------
(* preprocess_diff as the specification's normalize                         *)

Normalized == fcall.fn = "preprocess_diff" /\ fcall.pc \in { "returned", "twice" }

\* the lines of the input and of the output
InLines  == SplitLines[fcall.arg]
OutLines == SplitLines[fcall.out]

\* a line whose left-trimmed form is a fence, bare or with a language tag
FenceDelimiter(line) ==
    LET t == LStrip(line)
    IN  StartsWith(t, Fence) /\ \A k \in 4..Len(t) : t[k] \in Letters

\* a remove-file ("-") or add-file ("+") header, at column 0 or indented
HeaderLine(line, m) ==
    LET t == LStrip(line)
    IN  StartsWith(t, <<m, m, m, " ">>) /\ Len(t) >= 5 /\ t[5] # " "

Indent(line) == SubSeq(line, 1, Len(line) - Len(LStrip(line)))

\* line i and line i+1 are a remove-file and an add-file header with the
\* same leading whitespace
HeaderPairAt(lines, i) ==
    /\ i + 1 <= Len(lines)
    /\ HeaderLine(lines[i], "-") /\ HeaderLine(lines[i + 1], "+")
    /\ Indent(lines[i]) = Indent(lines[i + 1])

\* a line that begins, once left-trimmed, with one of the three markers
MarkerLine(line) ==
    LET t == LStrip(line)
    IN  \/ StartsWith(t, <<"-", "-", "-">>)
        \/ StartsWith(t, <<"+", "+", "+">>)
        \/ StartsWith(t, <<"@", "@">>)

\* what a surviving line is to look like in the output
AsKept(line) == IF MarkerLine(line) THEN LStrip(line) ELSE line

\* the lines of lines chosen by keep, each as it is to look, in their order
KeptLines(lines, keep) ==
    LET upto[k \in 0..Len(lines)] ==
            IF k = 0 THEN << >>
            ELSE IF keep[k] THEN Append(upto[k - 1], AsKept(lines[k]))
            ELSE upto[k - 1]
    IN  upto[Len(lines)]

\* text is these lines joined, with or without a final newline
IsJoinOf(text, lines) == text \in { JoinLines[lines], JoinLines[lines] \o <<NL>> }

\* C12: preprocess_diff applied to its own result gives that result again.
C12_Idempotent ==
    (fcall.fn = "preprocess_diff" /\ fcall.pc = "twice") => fcall.again = fcall.out

\* C13: the result of preprocess_diff ends with a newline exactly when its
\* argument does.
C13_TrailingNewlineIff ==
    Normalized => (EndsWithNL(fcall.out) <=> EndsWithNL(fcall.arg))

\* C14: when every file header line of the input is in an adjacent pair of a
\* remove-file header and an add-file header with the same leading
\* whitespace, no file header line is left in the result of preprocess_diff.
C14_HeaderPairsDeleted ==
    ( /\ Normalized
      /\ \A i \in 1..Len(InLines) :
            /\ HeaderLine(InLines[i], "-") => HeaderPairAt(InLines, i)
            /\ HeaderLine(InLines[i], "+") => (i > 1 /\ HeaderPairAt(InLines, i - 1)) )
    => \A k \in 1..Len(OutLines) :
          ~HeaderLine(OutLines[k], "-") /\ ~HeaderLine(OutLines[k], "+")

\* C15: the result of preprocess_diff is the surviving lines in their input
\* order, a content line character for character and any other line
\* left-trimmed; the lines that do not survive are fences and file headers.
C15_ContentLinesVerbatim ==
    Normalized =>
      \E keep \in [1..Len(InLines) -> BOOLEAN] :
          /\ IsJoinOf(fcall.out, KeptLines(InLines, keep))
          /\ \A i \in 1..Len(InLines) :
                ~keep[i] => \/ FenceDelimiter(InLines[i])
                            \/ HeaderLine(InLines[i], "-")
                            \/ HeaderLine(InLines[i], "+")

\* an indented content line and an indented hunk header were both kept
C15_Witness ==
    /\ Normalized
    /\ \E i, j \in 1..Len(InLines) :
          /\ InLines[i] = <<" ", "c">>
          /\ InLines[j] = <<" ", " ", "@", "@">>
    /\ \E k \in 1..Len(OutLines) : OutLines[k] = <<" ", "c">>
    /\ \E k \in 1..Len(OutLines) : OutLines[k] = <<"@", "@">>
    /\ Len(OutLines) < Len(InLines)

\* C16: no line of the result of preprocess_diff is a fence; and when the
\* input has no file header line, the result is exactly the lines of the
\* input that are not fences, in their order.
C16_NoFenceLeft ==
    Normalized =>
      /\ \A k \in 1..Len(OutLines) : ~FenceDelimiter(OutLines[k])
      /\ (\A i \in 1..Len(InLines) :
             ~HeaderLine(InLines[i], "-") /\ ~HeaderLine(InLines[i], "+"))
         => IsJoinOf(fcall.out,
                     KeptLines(InLines, [i \in 1..Len(InLines) |-> ~FenceDelimiter(InLines[i])]))

\* fences in the first, a middle and the last line were removed
C16_Witness ==
    /\ Normalized
    /\ Len(InLines) = 3
    /\ InLines[1] = Fence \o <<"d">>
    /\ InLines[2] = <<" ">> \o Fence
    /\ InLines[3] = Fence
    /\ fcall.out = << >>

-----------------------------------------------------------------------------
(* classify_prompt_intent and the routing of a prompt                       *)

Classified == fcall.fn = "classify_prompt_intent" /\ fcall.pc = "returned"

\* the classification collaborator failed: it raised (a timeout is
\* raised), or answered what is not parseable, not an object, or an object
\* that names neither intent
ClassifierFailed(answer) ==
    \/ answer.kind \in { "raise", "not_json", "not_object" }
    \/ answer.kind = "object" /\ answer.intent \notin { "CREATE_FILE", "EDIT_FILE" }

\* C17: classify_prompt_intent always returns CREATE_FILE or EDIT_FILE, and
\* exactly EDIT_FILE, with no description, when the collaborator failed.
C17_ClassifyFallsBackToEdit ==
    Classified =>
      /\ fcall.out.intent \in { "CREATE_FILE", "EDIT_FILE" }
      /\ ClassifierFailed(fcall.arg) => fcall.out = IntentResult("EDIT_FILE", None)

\* an object naming neither intent, with a description, came back as EDIT_FILE
C17_Witness ==
    /\ Classified
    /\ fcall.arg.kind = "object" /\ fcall.arg.intent = "SOMETHING_ELSE"
    /\ fcall.arg.description.some
    /\ fcall.out.intent = "EDIT_FILE"

\* the handler of a prompt of connection c runs in this step and returns
PromptHandled(c) ==
    /\ pc[c] = "handle" /\ cur[c].action = "prompt"
    /\ pc'[c] = "reply"

NoValidActiveFile(c) ==
    ~Truthy(cur[c].activeFile) \/ cur[c].activeFile.v \notin Files(sessions[c])

\* the handler has returned and its response is about to be sent
PromptReturned(c) == pc[c] = "reply" /\ cur[c].action = "prompt"

\* C18: a prompt classified EDIT_FILE in a session whose workspace is empty
\* is handled as a creation: generate_filename and generate_based_code are
\* called once, generate_based_diff is not, the workspace gains the new
\* file with the generated text and the response is file_created.
C18_EditWithNoFilesCreates ==
    [][ \A c \in Conns :
          ( /\ PromptHandled(c)
            /\ cur'[c].trace.intent = "EDIT_FILE"
            /\ Files(sessions[c]) = { } )
          => /\ cur'[c].trace.generate_filename = 1
             /\ cur'[c].trace.generate_based_code = 1
             /\ cur'[c].trace.generate_based_diff = 0
             /\ resp'[c].status = "success" /\ resp'[c].action = "file_created"
             /\ resp'[c].filename.some
             /\ Files(sessions'[c]) = { resp'[c].filename.v }
             /\ sessions'[c].workspace[resp'[c].filename.v] = resp'[c].content
      ]_vars

\* an EDIT_FILE prompt naming an active file, with no file in the
\* workspace before it, has created the first file
C18_Witness ==
    \E c \in DOMAIN sessions :
        /\ PromptReturned(c)
        /\ cur[c].trace.intent = "EDIT_FILE"
        /\ cur[c].activeFile.some
        /\ resp[c].action = "file_created"
        /\ Cardinality(Files(sessions[c])) = 1
        /\ Len(sessions[c].messages) = 2

\* C19: a prompt classified EDIT_FILE in a session whose workspace is not
\* empty, with an active filename that is missing or not a key of the
\* workspace, gets the edit_error response; neither generate_based_code nor
\* generate_based_diff is called and the workspace stays as it was.
C19_EditWithoutActiveFileRefused ==
    [][ \A c \in Conns :
          ( /\ PromptHandled(c)
            /\ cur'[c].trace.intent = "EDIT_FILE"
            /\ Files(sessions[c]) # { }
            /\ NoValidActiveFile(c) )
          => /\ resp'[c].status = "error" /\ resp'[c].action = "edit_error"
             /\ cur'[c].trace.generate_based_code = 0
             /\ cur'[c].trace.generate_based_diff = 0
             /\ sessions'[c].workspace = sessions[c].workspace
      ]_vars

\* a prompt naming a file that is not in the non-empty workspace was refused
C19_Witness ==
    \E c \in DOMAIN sessions :
        /\ PromptReturned(c)
        /\ cur[c].trace.intent = "EDIT_FILE"
        /\ cur[c].activeFile.some
        /\ Files(sessions[c]) # { }
        /\ cur[c].activeFile.v \notin Files(sessions[c])
        /\ resp[c].action = "edit_error"

\* C20: a prompt classified CREATE_FILE stores the generated text under a
\* filename that was not in the workspace: the workspace has one more key
\* afterwards and every earlier entry keeps its content.
C20_CreateUsesFreshFilename ==
    [][ \A c \in Conns :
          ( /\ PromptHandled(c)
            /\ cur'[c].trace.intent = "CREATE_FILE" )
          => /\ resp'[c].filename.some
             /\ resp'[c].filename.v \notin Files(sessions[c])
             /\ Cardinality(Files(sessions'[c])) = Cardinality(Files(sessions[c])) + 1
             /\ sessions'[c].workspace[resp'[c].filename.v] = resp'[c].content
             /\ \A f \in Files(sessions[c]) :
                   sessions'[c].workspace[f] = sessions[c].workspace[f]
      ]_vars

-----------------------------------------------------------------------------
(* The responses, the connection's life and the session table               *)

\* the responses connection c's client has received, in order
Responses(c) == { outbox[c][k] : k \in 1..Len(outbox[c]) }

\* C21: every message the server sends, on every path, carries a status
\* that is success or error and an action tag.
C21_EveryResponseTagged ==
    \A c \in Conns : \A o \in Responses(c) :
        /\ o.status \in { "success", "error" }
        /\ o.action # "none"

\* C22: on every connection the first message the server sends is the
\* initial state (status success, no files, no active file); it is sent
\* before any inbound frame is read and before any other response.
C22_InitialStateFirst ==
    \A c \in Conns :
        /\ pc[c] = "hello"
           => /\ resp[c].status = "success" /\ resp[c].action = "initial_state"
              /\ resp[c].files = { } /\ resp[c].activeFile = None
              /\ outbox[c] = << >>
        /\ pc[c] \in { "none", "hello" }
           => cur[c] = NoMsg /\ Len(inbox[c]) = nsent[c]
        /\ outbox[c] # << >>
           => /\ outbox[c][1].status = "success"
              /\ outbox[c][1].action = "initial_state"
              /\ outbox[c][1].req = 0
        /\ \A k \in 2..Len(outbox[c]) :
              outbox[c][k].action # "initial_state" /\ outbox[c][k].req > 0

\* the client got the initial state and then the answer to its first frame
C22_Witness ==
    \E c \in Conns :
        /\ Len(outbox[c]) >= 2
        /\ outbox[c][1].action = "initial_state"
        /\ outbox[c][2].req = 1

\* C23: after a connection has ended, by the client's disconnect or by an
\* unhandled error of the loop, also during a mutating action, the session
\* table holds no record for it.
C23_SessionDiscardedAtEnd ==
    \A c \in Conns : pc[c] = "ended" => c \notin DOMAIN sessions

\* connection a's coroutine or client takes this step
Moves(a) == <<pc[a], inbox[a], open[a], nsent[a]>>' # <<pc[a], inbox[a], open[a], nsent[a]>>

\* nothing of connection b changes in this step
Untouched(b) ==
    /\ b \in DOMAIN sessions => b \in DOMAIN sessions' /\ sessions'[b] = sessions[b]
    /\ b \notin DOMAIN sessions => b \notin DOMAIN sessions'
    /\ <<pc[b], cur[b], resp[b], outbox[b], lock_acquired[b]>>'
          = <<pc[b], cur[b], resp[b], outbox[b], lock_acquired[b]>>

\* C24: sessions are isolated.  No step taken for session a (the handling
\* of any of its actions, its disconnect and cleanup) changes session b's
\* workspace, history, context or gate, and a mutating action of b is never
\* rejected while b's own gate is free, whoever else holds a gate.
C24_SessionsIsolated ==
    [][ \A a, b \in Conns :
          a # b =>
            /\ Moves(a) => Untouched(b)
            /\ ( /\ pc[b] = "recv" /\ pc'[b] # "recv" /\ b \in DOMAIN sessions
                 /\ ~sessions[b].lock )
               => resp'[b].action # "operation_rejected"
      ]_vars

\* both sessions are inside a mutating handler, each holding its own gate
C24_Witness ==
    \E a, b \in DOMAIN sessions :
        /\ a # b
        /\ pc[a] = "reply" /\ cur[a].action = "prompt" /\ sessions[a].lock
        /\ pc[b] = "handle" /\ cur[b].action \in MutatingActions /\ sessions[b].lock

IsPrefix(s, t) == Len(s) <= Len(t) /\ SubSeq(t, 1, Len(s)) = s

\* C25: a session's history is append-only.  In every step the history
\* before is a prefix of the history after; only the handling of a prompt
\* extends it, and upload_file, list_files, read_file, apply_diff, rejected
\* and malformed messages leave it as it was.
C25_HistoryAppendOnly ==
    [][ \A c \in Conns :
          (c \in DOMAIN sessions /\ c \in DOMAIN sessions')
          => /\ IsPrefix(sessions[c].messages, sessions'[c].messages)
             /\ sessions'[c].messages # sessions[c].messages
                => pc[c] = "handle" /\ cur[c].action = "prompt"
      ]_vars

\* a second prompt has added its turns behind those of the first
C25_Witness ==
    \E c \in DOMAIN sessions :
        /\ PromptReturned(c)
        /\ cur[c].n = 2
        /\ Len(sessions[c].messages) >= 3
        /\ sessions[c].messages[1].role = "user"
        /\ sessions[c].messages[2].role = "agent"

-----------------------------------------------------------------------------
(* The file operations                                                      *)

\* the handler of connection c's message runs in this step and returns
HandledNow(c, action) ==
    /\ pc[c] = "handle" /\ cur[c].action = action
    /\ pc'[c] = "reply"

\* the message in hand names an entry of the workspace
NamesEntry(c) == cur[c].filename.some /\ cur[c].filename.v \in Files(sessions[c])

\* C26: when apply_diff names an existing entry and apply_patch fails, the
\* response is the error "Patch failed: " followed by the failure's reason
\* as it is, with action apply_diff_error, and the workspace is unchanged.
C26_PatchFailureReported ==
    [][ \A c \in Conns :
          ( /\ HandledNow(c, "apply_diff") /\ NamesEntry(c)
            /\ cur'[c].trace.apply_patch # << >>
            /\ cur'[c].trace.apply_patch[1].result.kind = "raise" )
          => /\ resp'[c].status = "error"
             /\ resp'[c].action = "apply_diff_error"
             /\ resp'[c].error = "Patch failed: " \o cur'[c].trace.apply_patch[1].result.reason
             /\ sessions'[c].workspace = sessions[c].workspace
      ]_vars

\* an uploaded file was to be patched and apply_patch found no hunk
C26_Witness ==
    \E c \in DOMAIN sessions :
        /\ pc[c] = "reply" /\ cur[c].action = "apply_diff"
        /\ NamesEntry(c)
        /\ sessions[c].workspace[cur[c].filename.v] = Some(TextO)
        /\ resp[c].action = "apply_diff_error"
        /\ resp[c].error = "Patch failed: no hunk"

\* C27: when apply_diff names an existing entry and the normalized diff
\* applies, apply_patch was called with the entry's content and
\* preprocess_diff of the diff, the entry becomes its result, the response
\* diff_applied carries the same text and every other entry is unchanged;
\* a read_file of an entry that holds a text answers with that text.
C27_DiffAppliedAndStored ==
    [][ \A c \in Conns :
          /\ ( /\ HandledNow(c, "apply_diff") /\ NamesEntry(c)
               /\ cur'[c].trace.apply_patch # << >>
               /\ cur'[c].trace.apply_patch[1].result.kind = "applied" )
             => LET f    == cur[c].filename.v
                    call == cur'[c].trace.apply_patch[1]
                IN  /\ Len(cur'[c].trace.apply_patch) = 1
                    /\ call.current_code = sessions[c].workspace[f]
                    /\ call.patch = preprocess_diff(cur[c].diff)
                    /\ sessions'[c].workspace[f] = Some(call.result.text)
                    /\ resp'[c].status = "success"
                    /\ resp'[c].action = "diff_applied"
                    /\ resp'[c].filename = Some(f)
                    /\ resp'[c].new_code = call.result.text
                    /\ Files(sessions'[c]) = Files(sessions[c])
                    /\ \A g \in Files(sessions[c]) \ { f } :
                          sessions'[c].workspace[g] = sessions[c].workspace[g]
          /\ ( /\ HandledNow(c, "read_file") /\ NamesEntry(c)
               /\ sessions[c].workspace[cur[c].filename.v].some )
             => /\ resp'[c].status = "success"
                /\ resp'[c].action = "file_content"
                /\ resp'[c].content = sessions[c].workspace[cur[c].filename.v]
      ]_vars

\* upload_file, apply_diff and read_file of the same file, in this order:
\* the read answers with the text apply_patch returned
C27_Witness ==
    \E c \in DOMAIN sessions :
        /\ pc[c] = "reply" /\ cur[c].action = "read_file" /\ cur[c].n = 3
        /\ cur[c].filename = Some(NameX)
        /\ resp[c].content = Some(TextP)
        /\ Len(outbox[c]) = 3
        /\ outbox[c][2].action = "file_uploaded"
        /\ outbox[c][3].action = "diff_applied"

\* C28: read_file answers success with the entry's current content exactly
\* when the requested filename is a key of the workspace, whatever content
\* upload_file stored for it (empty or null included), answers the error
\* "File not found" only when it is not a key, and never changes the session.
C28_ReadIffKey ==
    [][ \A c \in Conns :
          HandledNow(c, "read_file")
          => /\ sessions'[c] = sessions[c]
             /\ IF NamesEntry(c)
                THEN /\ resp'[c].status = "success"
                     /\ resp'[c].action = "file_content"
                     /\ resp'[c].content = sessions[c].workspace[cur[c].filename.v]
                ELSE /\ resp'[c].status = "error"
                     /\ resp'[c].error = "File not found"
      ]_vars

\* C29: upload_file with a filename stores the content as supplied under
\* that key, creating or overwriting the entry and leaving the others as
\* they were.  Keys are added by upload_file and by a prompt that creates a
\* file, and never removed; read_file of a key answers with the content
\* stored last, and list_files with exactly the keys.
C29_UploadLastWriteWins ==
    [][ \A c \in Conns :
          /\ (HandledNow(c, "upload_file") /\ Truthy(cur[c].filename))
             => /\ sessions'[c].workspace =
                      Stored(sessions[c].workspace, cur[c].filename.v, cur[c].content)
                /\ resp'[c].action = "file_uploaded"
                /\ resp'[c].files = Files(sessions'[c])
          /\ (c \in DOMAIN sessions /\ c \in DOMAIN sessions')
             => /\ Files(sessions[c]) \subseteq Files(sessions'[c])
                /\ Files(sessions'[c]) # Files(sessions[c])
                   => \/ HandledNow(c, "upload_file")
                      \/ HandledNow(c, "prompt") /\ resp'[c].action = "file_created"
          /\ (HandledNow(c, "read_file") /\ NamesEntry(c))
             => /\ resp'[c].status = "success"
                /\ resp'[c].content = sessions[c].workspace[cur[c].filename.v]
          /\ HandledNow(c, "list_files")
             => resp'[c].files = Files(sessions[c])
      ]_vars

-----------------------------------------------------------------------------
(* Malformed messages                                                       *)

KnownActions == { "prompt", "upload_file", "list_files", "read_file", "apply_diff" }

\* a text frame that is not JSON, is JSON but not an object, has no action
\* or names an unknown action
Malformed(m) ==
    /\ m.frame = "text"
    /\ \/ m.json \in { "invalid", "non_object" }
       \/ m.action = ""
       \/ m.action \notin KnownActions

-----------------------------------------------------------------------------
(* Handler exceptions, the order of the responses                           *)

\* C31: an exception raised inside a handler is caught at the dispatch: an
\* error response is prepared and, while the client is there, delivered;
\* the session record is kept, the gate is released and the loop goes on to
\* the next receive.
C31_HandlerExceptionCaught ==
    [][ \A c \in Conns :
          /\ (pc[c] = "handle" /\ pc'[c] \notin { "handle", "reply" })
             => /\ pc'[c] = "error_reply"
                /\ resp'[c].status = "error"
                /\ c \in DOMAIN sessions'
          /\ (pc[c] = "error_reply" /\ pc'[c] # "error_reply")
             => /\ pc'[c] = "recv"
                /\ c \in DOMAIN sessions'
                /\ ~sessions'[c].lock
                /\ open[c] => /\ Len(outbox'[c]) = Len(outbox[c]) + 1
                              /\ outbox'[c][Len(outbox'[c])].status = "error"
                              /\ outbox'[c][Len(outbox'[c])].req = cur[c].n
      ]_vars

\* a prompt whose handler raised was answered with an error and the next
\* message was handled and answered
C31_Witness ==
    \E c \in DOMAIN sessions :
        /\ Len(outbox[c]) = 3
        /\ outbox[c][2].req = 1 /\ outbox[c][2].request = "prompt"
        /\ outbox[c][2].error = "Error processing action"
        /\ outbox[c][3].req = 2 /\ outbox[c][3].status = "success"

-----------------------------------------------------------------------------
(* The rounds of the loops: failures of the validation request, feedback,   *)
(* the result of a success                                                  *)

\* round r's validation call raised requests' RequestException (a timeout,
\* a connection error, an HTTP error status)
ValRequestFailed(r) == eng.log[r].v = "RequestException"

\* C32: a timeout or transport failure of the validation call in round r is
\* treated like a validation failure: the round counts, a new generation
\* call follows if rounds remain, the call ends with a result otherwise,
\* and until the next candidate arrives the candidate of round r (and in
\* generate_based_diff its applied text) is the last one recorded.
C32_ValidationRequestFailureIsARound ==
    \A r \in Rounds :
        ValRequestFailed(r)
        => /\ IF r < MAX_ITER
              THEN Len(eng.log) > r \/ (eng.pc = "invoke" /\ eng.i = r)
              ELSE Done
           /\ eng.ngen >= r /\ eng.nval <= eng.ngen
           /\ (r = Len(eng.log) /\ eng.fn = "code")
              => /\ eng.last_code_attempt = eng.log[r].attempt
                 /\ Done => eng.result.text = eng.log[r].attempt
           /\ (r = Len(eng.log) /\ eng.fn = "diff")
              => /\ eng.last_diff_attempt = eng.log[r].attempt
                 /\ eng.last_generated_new_code = eng.log[r].applied
                 /\ Done => /\ eng.result.diff = eng.log[r].attempt
                            /\ eng.result.new_code = eng.log[r].applied

\* the validation request failed in round 1, the loop went on, and it failed
\* again in the last round: the last diff and its applied text are returned
C32_Witness ==
    /\ eng.fn = "diff" /\ Done
    /\ Len(eng.log) = MAX_ITER
    /\ ValRequestFailed(1) /\ ValRequestFailed(MAX_ITER)
    /\ eng.log[1].attempt # eng.log[MAX_ITER].attempt
    /\ eng.log[1].applied # eng.log[MAX_ITER].applied
    /\ eng.result.new_code = eng.log[MAX_ITER].applied

\* the feedback that the outcome of round r alone determines
FeedbackOf(r) ==
    LET e == eng.log[r]
    IN  IF e.p = "raise" THEN Feedback("apply_failed", e.reason)
        ELSE IF "RequestException" \in { e.g, e.v }
        THEN Feedback("network_error", "Validation service request failed")
        ELSE Feedback("validation_failed", ErrorOf(e))

\* C33: the prompt of round 1 carries no failure feedback, and the prompt
\* of round r+1 carries the feedback of round r alone: the reason of the
\* patch failure when round r's diff did not apply, the validator's reason
\* when its validation failed.
C33_FeedbackOfPreviousRoundOnly ==
    \A r \in Rounds :
        /\ r = 1 => eng.log[r].prompt = Feedback("initial", "none")
        /\ r > 1 => eng.log[r].prompt = FeedbackOf(r - 1)

\* three rounds of generate_based_diff: a diff that did not apply, a result
\* that failed validation, a diff that did not apply for another reason
C33_Witness ==
    /\ eng.fn = "diff" /\ Len(eng.log) >= 4
    /\ eng.log[2].prompt = Feedback("apply_failed", "hunk failed")
    /\ eng.log[3].prompt = Feedback("validation_failed", "error")
    /\ eng.log[4].prompt = Feedback("apply_failed", "no hunk")

\* C34: when the validation of a round reports success, generate_based_code
\* returns the validator's converted text if the result has one and that
\* round's fence-stripped candidate otherwise; generate_based_diff returns
\* that round's diff with, as new code, the converted text if the result
\* has one and the text the diff produced otherwise.
C34_SuccessReturnsConvertedOrCandidate ==
    \A r \in Rounds :
        ValSucceeded(r)
        => /\ Done /\ r = Len(eng.log)
           /\ eng.fn = "code"
              => eng.result.text = IF eng.log[r].has_converted
                                   THEN eng.log[r].converted_code
                                   ELSE eng.log[r].attempt
           /\ eng.fn = "diff"
              => /\ eng.result.diff = eng.log[r].attempt
                 /\ eng.result.new_code = IF eng.log[r].has_converted
                                          THEN eng.log[r].converted_code
                                          ELSE eng.log[r].applied

\* generate_based_diff succeeds in its second round with a converted text
\* that differs from what the diff produced
C34_Witness ==
    /\ eng.fn = "diff" /\ Done /\ Len(eng.log) = 2
    /\ ValFailed(1) /\ ValSucceeded(2)
    /\ eng.log[2].has_converted
    /\ eng.log[2].applied # eng.log[2].converted_code
    /\ eng.log[1].attempt # eng.log[2].attempt
    /\ eng.result.new_code = TextV
    /\ eng.result.diff = strip_code_blocks(RawDiffB)

-----------------------------------------------------------------------------
(* The turns a prompt adds to the history                                   *)

\* the turns that this step appends to the history of connection c
Added(c) ==
    SubSeq(sessions'[c].messages, Len(sessions[c].messages) + 1,
           Len(sessions'[c].messages))

\* C35: a prompt that ends in file_created or diff_generated appends two
\* turns, the user's and then the agent's naming the target file, after the
\* engine was called; one that ends in the select-a-file error appends the
\* user's turn only; one whose handler raises appends nothing.
C35_TurnsOfAPrompt ==
    [][ \A c \in Conns :
          (pc[c] = "handle" /\ cur[c].action = "prompt" /\ pc'[c] # "handle")
          => /\ IsPrefix(sessions[c].messages, sessions'[c].messages)
             /\ (pc'[c] = "reply" /\ resp'[c].action \in { "file_created", "diff_generated" })
                => /\ Len(Added(c)) = 2
                   /\ Added(c)[1] = UserTurn(cur[c])
                   /\ Added(c)[2].role = "agent"
                   /\ Added(c)[2].filename = resp'[c].filename
                   /\ cur'[c].trace.generate_based_code
                        + cur'[c].trace.generate_based_diff = 1
             /\ (pc'[c] = "reply" /\ resp'[c].action = "edit_error")
                => Added(c) = << UserTurn(cur[c]) >>
             /\ pc'[c] = "error_reply" => Added(c) = << >>
      ]_vars

\* a creation, then an edit refused for want of an active file: the history
\* holds the user's turn, the agent's turn and the second user's turn
C35_Witness ==
    \E c \in DOMAIN sessions :
        /\ Len(sessions[c].messages) = 3
        /\ sessions[c].messages[1].role = "user"
        /\ sessions[c].messages[2].role = "agent"
        /\ sessions[c].messages[2].filename.some
        /\ sessions[c].messages[3].role = "user"
        /\ Len(outbox[c]) = 3
        /\ outbox[c][2].action = "file_created"
        /\ outbox[c][3].action = "edit_error"

-----------------------------------------------------------------------------
(* The event loop during a prompt                                           *)

\* C36: the collaborator calls of a prompt's retry loop are suspension
\* points.  While the handler of session a's prompt is in the run that
\* makes them, a message waiting for another session b can be received
\* (and then answered) before a's handler comes to its response.
C36_OtherSessionServedDuringPrompt ==
    \A a, b \in Conns :
        ( /\ a # b
          /\ pc[a] = "handle" /\ cur[a].action = "prompt" /\ cur[a].prompt = "str"
          /\ pc[b] = "recv" /\ inbox[b] # << >> )
        => ENABLED Receive(b)

-----------------------------------------------------------------------------
(* apply_diff on a file that is not there, prompts and the workspace        *)

\* C37: apply_diff whose filename is missing or is not a key of the
\* workspace is answered with the error "File not found or invalid for
\* diff" and action apply_diff_error, without a call of preprocess_diff or
\* apply_patch, and leaves the workspace and the history as they were.
C37_ApplyDiffUnknownFileRefused ==
    [][ \A c \in Conns :
          ( /\ pc[c] = "handle" /\ cur[c].action = "apply_diff" /\ pc'[c] # "handle"
            /\ ~NamesEntry(c) )
          => /\ pc'[c] = "reply"
             /\ resp'[c] = Error("File not found or invalid for diff", "apply_diff_error")
             /\ cur'[c].trace.apply_patch = << >>
             /\ sessions'[c] = sessions[c]
      ]_vars

\* the workspace holds a file and apply_diff names another one
C37_Witness ==
    \E c \in DOMAIN sessions :
        /\ pc[c] = "reply" /\ cur[c].action = "apply_diff"
        /\ cur[c].filename.some
        /\ cur[c].filename.v \notin Files(sessions[c])
        /\ Files(sessions[c]) # { }
        /\ resp[c].error = "File not found or invalid for diff"
        /\ resp[c].action = "apply_diff_error"

\* a diff_generated response has been sent to connection c
DiffGenerated(c) == \E k \in 1..Len(outbox[c]) : outbox[c][k].action = "diff_generated"

\* C38: a prompt answered with diff_generated leaves the whole workspace as
\* it was, and its target entry equals the old_code of the response whatever
\* the new_code; afterwards the entry changes only in the handling of an
\* apply_diff or an upload_file.  (In EditSpec every such prompt names NameX.)
C38_DiffPromptLeavesWorkspace ==
    [][ \A c \in Conns :
          /\ (PromptHandled(c) /\ resp'[c].action = "diff_generated")
             => /\ sessions'[c].workspace = sessions[c].workspace
                /\ sessions'[c].workspace[cur[c].activeFile.v].v = resp'[c].old_code
          /\ ( /\ DiffGenerated(c)
               /\ c \in DOMAIN sessions /\ c \in DOMAIN sessions'
               /\ NameX \in Files(sessions[c])
               /\ sessions'[c].workspace[NameX] # sessions[c].workspace[NameX] )
             => /\ pc[c] = "handle"
                /\ cur[c].action \in { "apply_diff", "upload_file" }
      ]_vars

-----------------------------------------------------------------------------
(* The diff and the new code of a result                                    *)

\* round r called apply_patch
PatchCalled(r) == eng.log[r].p # "none"

\* apply_patch behaved as a function in this call of generate_based_diff:
\* the same diff against the same current_code had the same outcome
PatchDeterministic ==
    \A r, q \in Rounds :
        (PatchCalled(r) /\ PatchCalled(q) /\ eng.log[r].attempt = eng.log[q].attempt)
        => /\ eng.log[r].p = eng.log[q].p
           /\ eng.log[r].applied = eng.log[q].applied

\* C39: with a deterministic apply_patch, every result of
\* generate_based_diff in which some diff applied is self-consistent: the
\* diff it returns, applied to old_code, gives exactly the new_code it
\* returns - on success, on exhaustion and with a converted text.
C39_DiffResultSelfConsistent ==
    ( /\ eng.fn = "diff" /\ Done
      /\ PatchDeterministic
      /\ \E r \in Rounds : DiffApplied(r) )
    => /\ eng.result.old_code = eng.base
       /\ \E r \in Rounds :
             /\ DiffApplied(r)
             /\ eng.log[r].attempt = eng.result.diff
             /\ eng.log[r].applied = eng.result.new_code

-----------------------------------------------------------------------------
(* One response for each message                                            *)

\* the frames of connection c that receive_text has taken from the socket
Consumed(c) == nsent[c] - Len(inbox[c])

\* C40: while the client keeps the connection open, every inbound message
\* gets exactly one response and the responses come in the order of the
\* messages; apart from initial_state the server sends nothing that does
\* not answer a message.  The k-th message after initial_state answers
\* request k, and all the requests taken from the socket are answered but
\* the one in hand.
C40_OneResponsePerMessageInOrder ==
    \A c \in Conns :
        /\ \A k \in 1..Len(outbox[c]) :
              /\ outbox[c][k].req = k - 1
              /\ (k = 1) = (outbox[c][k].action = "initial_state")
        /\ (open[c] /\ pc[c] \notin { "none", "hello" })
           => Len(outbox[c]) = 1 + Consumed(c) - (IF InFlight(c) THEN 1 ELSE 0)

\* two requests, both answered, the connection still open
C40_Witness ==
    \E c \in DOMAIN sessions :
        /\ open[c] /\ pc[c] = "recv" /\ Consumed(c) = 2
        /\ Len(outbox[c]) = 3
        /\ outbox[c][2].request = "upload_file" /\ outbox[c][2].req = 1
        /\ outbox[c][3].request = "list_files" /\ outbox[c][3].req = 2

=============================================================================
